---- MODULE Spec2Model ----
(***************************************************************************)
(* Model of the probe-rs debug core:                                       *)
(*   - the memory access port facade (architecture/arm/ap/memory_ap),     *)
(*   - the DWARF stack-frame iterator (debug/mod.rs).                      *)
(*                                                                         *)
(* TLC integers are 32 bit wide, so a u32 of the program is modelled with *)
(* WordBits bits and a u64 with 2 * WordBits bits; every operation keeps   *)
(* its width with % U32 / % U64 exactly where the program truncates.       *)
(***************************************************************************)
EXTENDS Integers, Sequences, FiniteSets, TLC

\* ------------------------------------------------------------------------
\* Bounds of the model
\* ------------------------------------------------------------------------

\* Width of the modelled u32 (the program's is 32).
WordBits == 14

\* Longest slice handed to read_data / write_data.
MaxWords == 2

U32 == 2 ^ WordBits

U64 == U32 * U32

\* The words that inputs are drawn from: both ends of the range and a value
\* in between.
WordSample == {0, 1, U32 - 1}

\* The 64-bit addresses that inputs are drawn from: every combination of
\* upper and lower word of WordSample.
AddrSample == {u * U32 + l : u \in WordSample, l \in WordSample}

\* ------------------------------------------------------------------------
\* Memory access port: state
\* ------------------------------------------------------------------------

VARIABLES
    ap,     \* the MemoryAp value the caller holds, or NoAp before MemoryAp::new
    tar,    \* TAR register of the access port (lower 32 bits of the target address)
    tar2,   \* TAR2 register of the access port (upper 32 bits)
    call    \* the latest operation: its name, argument, register accesses, result

apVars == <<ap, tar, tar2, call>>

\* The stack-frame iterator of the debugger, which the operations of the
\* access port leave alone, and what its calls returned.
VARIABLES
    pc,              \* StackFrameIterator.pc: Option<u64>
    registers,       \* StackFrameIterator.registers: values and architecture
    inlining_state,  \* StackFrameIterator.inlining_state
    frame_count,     \* StackFrameIterator.frame_count
    frame_section,   \* DebugInfo.frame_section: the unwind information per address
    dwarf,           \* DebugInfo.dwarf: the function DIEs per address
    memory,          \* the target memory the core reads
    yielded,         \* what the latest call of next() returned
    before,          \* what the call of next() before it returned and whether it
                     \* had found the program counter inside an inlined function
    step,            \* what the latest call of next() did
    visited          \* the iterator states in which next() has been called

uwVars == <<pc, registers, inlining_state, frame_count, frame_section, dwarf,
            memory, yielded, before, step, visited>>

\* The queries of the debug information that need no stack-frame iterator.
VARIABLES
    units,  \* DebugInfo.dwarf: the compilation units the queries read
    query   \* the latest query of DebugInfo: its name, its inputs, its result

diVars == <<units, query>>

\* No query has been made.
NoQuery == [op |-> "none", arg |-> <<>>, ret |-> <<>>]

NoAp == [variant |-> "None", lae |-> FALSE]

\* The variants of enum MemoryAp, as listed in the memory_aps! invocation.
MemoryApVariants ==
    {"AmbaAhb3", "AmbaAhb5", "AmbaAhb5Hprot", "AmbaApb2Apb3", "AmbaApb4Apb5",
     "AmbaAxi3Axi4", "AmbaAxi5"}

\* The values of IDR.TYPE: the match in MemoryAp::new is exhaustive over
\* JtagComAp and the seven memory access port types.
ApType == {"JtagComAp"} \cup MemoryApVariants

\* Capability query of the trait, forwarded by the facade to the wrapped
\* variant, which holds the flag it resolved at construction.
has_large_address_extension(self) == self.lae

\* Results of an operation.
Ok(v) == [kind |-> "Ok", err |-> "", val |-> v]

Err(e) == [kind |-> "Err", err |-> e, val |-> 0]

\* The future was dropped at an await: the caller sees no result.
Cancelled == [kind |-> "Cancelled", err |-> "", val |-> 0]

\* What can happen at one awaited register access of the interface: it
\* completes, it fails (the transfer may or may not have reached the
\* register), or the caller drops the future while it is pending.
AccessOutcome == {"ok", "err", "err_landed", "cancel", "cancel_landed"}

Landed(o) == o \in {"ok", "err_landed", "cancel_landed"}

\* The result the `?` operator propagates for an access that did not complete.
Propagate(o) == IF o \in {"cancel", "cancel_landed"} THEN Cancelled ELSE Err("Transport")

Access(reg, acc, rep, val, o) == [reg |-> reg, acc |-> acc, rep |-> rep, val |-> val, res |-> o]

\* What the record of a set_target_address call keeps of the call before it:
\* the operation, how it ended, and how many register accesses it had issued.
Summary(c) == [op |-> c.op, kind |-> c.ret.kind, accesses |-> Len(c.log)]

NoPrev == [op |-> "none", kind |-> "Ok", accesses |-> 0]

\* ------------------------------------------------------------------------
\* MemoryApType::set_target_address
\* ------------------------------------------------------------------------

\* set_target_address without the bounds check: the upper word is dropped
\* silently on an access port without the large-address extension.
set_target_address_unchecked(self, regs, address, o2, o1) ==
    LET address_lower == address % U32
        address_upper == (address \div U32) % U32
        wr2 == Access("TAR2", "write", FALSE, address_upper, o2)
        wr1 == Access("TAR", "write", FALSE, address_lower, o1)
        afterTar2 == IF Landed(o2) THEN address_upper ELSE regs.tar2
    IN  IF has_large_address_extension(self) /\ o2 # "ok"
        THEN [tar |-> regs.tar, tar2 |-> afterTar2, log |-> <<wr2>>, ret |-> Propagate(o2)]
        ELSE [tar  |-> IF Landed(o1) THEN address_lower ELSE regs.tar,
              tar2 |-> IF has_large_address_extension(self) THEN afterTar2 ELSE regs.tar2,
              log  |-> IF has_large_address_extension(self) THEN <<wr2, wr1>> ELSE <<wr1>>,
              ret  |-> IF o1 = "ok" THEN Ok(0) ELSE Propagate(o1)]

\* set_target_address writing TAR before TAR2.
set_target_address_tar_first(self, regs, address, o2, o1) ==
    LET address_lower == address % U32
        address_upper == (address \div U32) % U32
        wr2 == Access("TAR2", "write", FALSE, address_upper, o2)
        wr1 == Access("TAR", "write", FALSE, address_lower, o1)
        afterTar == IF Landed(o1) THEN address_lower ELSE regs.tar
    IN  IF ~has_large_address_extension(self) /\ address_upper # 0
        THEN [tar |-> regs.tar, tar2 |-> regs.tar2, log |-> <<>>, ret |-> Err("OutOfBounds")]
        ELSE IF o1 # "ok"
        THEN [tar |-> afterTar, tar2 |-> regs.tar2, log |-> <<wr1>>, ret |-> Propagate(o1)]
        ELSE IF ~has_large_address_extension(self)
        THEN [tar |-> afterTar, tar2 |-> regs.tar2, log |-> <<wr1>>, ret |-> Ok(0)]
        ELSE [tar  |-> afterTar,
              tar2 |-> IF Landed(o2) THEN address_upper ELSE regs.tar2,
              log  |-> <<wr1, wr2>>,
              ret  |-> IF o2 = "ok" THEN Ok(0) ELSE Propagate(o2)]

\* set_target_address writing TAR2 only when the upper word is non-zero.
set_target_address_skip_zero(self, regs, address, o2, o1) ==
    LET address_lower == address % U32
        address_upper == (address \div U32) % U32
        wr2 == Access("TAR2", "write", FALSE, address_upper, o2)
        wr1 == Access("TAR", "write", FALSE, address_lower, o1)
        afterTar2 == IF Landed(o2) THEN address_upper ELSE regs.tar2
        large == has_large_address_extension(self) /\ address_upper # 0
    IN  IF large /\ o2 # "ok"
        THEN [tar |-> regs.tar, tar2 |-> afterTar2, log |-> <<wr2>>, ret |-> Propagate(o2)]
        ELSE IF ~has_large_address_extension(self) /\ address_upper # 0
        THEN [tar |-> regs.tar, tar2 |-> regs.tar2, log |-> <<>>, ret |-> Err("OutOfBounds")]
        ELSE [tar  |-> IF Landed(o1) THEN address_lower ELSE regs.tar,
              tar2 |-> IF large THEN afterTar2 ELSE regs.tar2,
              log  |-> IF large THEN <<wr2, wr1>> ELSE <<wr1>>,
              ret  |-> IF o1 = "ok" THEN Ok(0) ELSE Propagate(o1)]

\* o2 and o1 are the outcomes of the TAR2 and the TAR write.
set_target_address(self, regs, address, o2, o1) ==
    LET address_lower == address % U32
        address_upper == (address \div U32) % U32
        wr2 == Access("TAR2", "write", FALSE, address_upper, o2)
        wr1 == Access("TAR", "write", FALSE, address_lower, o1)
        afterTar2 == IF Landed(o2) THEN address_upper ELSE regs.tar2
    IN  IF has_large_address_extension(self) /\ o2 # "ok"
        THEN [tar |-> regs.tar, tar2 |-> afterTar2, log |-> <<wr2>>, ret |-> Propagate(o2)]
        ELSE IF ~has_large_address_extension(self) /\ address_upper # 0
        THEN [tar |-> regs.tar, tar2 |-> regs.tar2, log |-> <<>>, ret |-> Err("OutOfBounds")]
        ELSE [tar  |-> IF Landed(o1) THEN address_lower ELSE regs.tar,
              tar2 |-> IF has_large_address_extension(self) THEN afterTar2 ELSE regs.tar2,
              log  |-> IF has_large_address_extension(self) THEN <<wr2, wr1>> ELSE <<wr1>>,
              ret  |-> IF o1 = "ok" THEN Ok(0) ELSE Propagate(o1)]

SetTargetAddress ==
    /\ ap # NoAp
    /\ \E address \in AddrSample, o2 \in AccessOutcome, o1 \in AccessOutcome :
          LET r == set_target_address(ap, [tar |-> tar, tar2 |-> tar2], address, o2, o1)
          IN  /\ tar' = r.tar
              /\ tar2' = r.tar2
              /\ call' = [op |-> "set_target_address", arg |-> address,
                          pre |-> [tar |-> tar, tar2 |-> tar2], prev |-> Summary(call),
                          log |-> r.log, ret |-> r.ret]
    /\ UNCHANGED ap
    /\ UNCHANGED <<uwVars, diVars>>

\* ------------------------------------------------------------------------
\* MemoryApType::base_address
\* ------------------------------------------------------------------------

\* Number of low bits of a base address that BASE does not hold.
PageBits == 12

\* What can happen at one awaited register read.
ReadOutcome == {"ok", "err", "cancel"}

\* Bitwise or of two naturals.
RECURSIVE BitOr(_, _)
BitOr(a, b) ==
    IF a = 0 THEN b
    ELSE IF b = 0 THEN a
    ELSE (IF a % 2 = 1 \/ b % 2 = 1 THEN 1 ELSE 0) + 2 * BitOr(a \div 2, b \div 2)

\* The BASE register as the interface hands it over, decoded from the raw
\* word: BASEADDR is bits [31:12], Format is bit 1, present is bit 0.
BASE(raw) ==
    [BASEADDR |-> raw \div (2 ^ PageBits),
     Format   |-> IF (raw \div 2) % 2 = 1 THEN "ADIv5" ELSE "Legacy",
     present  |-> raw % 2 = 1]

\* The BASE2 register: the whole word is BASEADDR.
BASE2(raw) == [BASEADDR |-> raw]

\* The raw BASE words inputs are drawn from: every BASEADDR, both formats,
\* both values of the present bit.
BaseSample ==
    {b * (2 ^ PageBits) + f * 2 + p : b \in 0 .. (U32 \div (2 ^ PageBits)) - 1,
                                     f \in {0, 1}, p \in {0, 1}}

\* base_address reading BASE2 whatever the format of BASE.
base_address_always_wide(self, rawBase, rawBase2, oBase, oBase2) ==
    LET base_register == BASE(rawBase)
        rdBase == Access("BASE", "read", FALSE, rawBase, oBase)
        rdBase2 == Access("BASE2", "read", FALSE, rawBase2, oBase2)
        low == (base_register.BASEADDR * (2 ^ PageBits)) % U32
    IN  IF oBase # "ok"
        THEN [log |-> <<rdBase>>, ret |-> Propagate(oBase)]
        ELSE IF oBase2 # "ok"
        THEN [log |-> <<rdBase, rdBase2>>, ret |-> Propagate(oBase2)]
        ELSE [log |-> <<rdBase, rdBase2>>,
              ret |-> Ok(BitOr((BASE2(rawBase2).BASEADDR * U32) % U64, low))]

\* rawBase, rawBase2: the words the BASE and BASE2 registers hold;
\* oBase, oBase2: the outcomes of the two reads.
base_address(self, rawBase, rawBase2, oBase, oBase2) ==
    LET base_register == BASE(rawBase)
        rdBase == Access("BASE", "read", FALSE, rawBase, oBase)
        rdBase2 == Access("BASE2", "read", FALSE, rawBase2, oBase2)
        low == (base_register.BASEADDR * (2 ^ PageBits)) % U32
    IN  IF oBase # "ok"
        THEN [log |-> <<rdBase>>, ret |-> Propagate(oBase)]
        ELSE IF base_register.Format = "ADIv5"
        THEN IF oBase2 # "ok"
             THEN [log |-> <<rdBase, rdBase2>>, ret |-> Propagate(oBase2)]
             ELSE [log |-> <<rdBase, rdBase2>>,
                   ret |-> Ok(BitOr((BASE2(rawBase2).BASEADDR * U32) % U64, low))]
        ELSE [log |-> <<rdBase>>, ret |-> Ok(BitOr(0, low))]

BaseAddress ==
    /\ ap # NoAp
    /\ \E rawBase \in BaseSample, rawBase2 \in WordSample,
          oBase \in ReadOutcome, oBase2 \in ReadOutcome :
          LET r == base_address(ap, rawBase, rawBase2, oBase, oBase2)
          IN  call' = [op |-> "base_address", arg |-> <<rawBase, rawBase2>>,
                       pre |-> [tar |-> tar, tar2 |-> tar2], prev |-> NoPrev,
                       log |-> r.log, ret |-> r.ret]
    /\ UNCHANGED <<ap, tar, tar2>>
    /\ UNCHANGED <<uwVars, diVars>>

\* ------------------------------------------------------------------------
\* MemoryApType::read_data / write_data
\* ------------------------------------------------------------------------

\* All slices of at most n words of WordSample.
Slices(n) == UNION {[1 .. k -> WordSample] : k \in 0 .. n}

\* The error a failed DRW access is turned into:
\* AccessPortError::register_read_error / register_write_error, wrapped by
\* ArmError::from_access_port with the address of the access port.
DrwError(o, e) == IF o = "cancel" THEN Cancelled ELSE Err(e)

\* read_data taking the single-word path for every non-empty slice.
read_data_first_only(self, values, data, o) ==
    IF Len(values) >= 1
    THEN [log    |-> <<Access("DRW", "read", FALSE, 1, o)>>,
          values |-> IF o = "ok" THEN [values EXCEPT ![1] = data[1]] ELSE values,
          ret    |-> IF o = "ok" THEN Ok(0) ELSE DrwError(o, "RegisterRead")]
    ELSE [log    |-> <<Access("DRW", "read", TRUE, Len(values), o)>>,
          values |-> IF o = "ok" THEN data ELSE values,
          ret    |-> IF o = "ok" THEN Ok(0) ELSE DrwError(o, "RegisterRead")]

\* values: the caller's slice; data: the words DRW delivers, one per
\* element of the slice; o: the outcome of the access.  The result holds
\* the slice as the call leaves it.
read_data(self, values, data, o) ==
    IF Len(values) = 1
    THEN [log    |-> <<Access("DRW", "read", FALSE, 1, o)>>,
          values |-> IF o = "ok" THEN <<data[1]>> ELSE values,
          ret    |-> IF o = "ok" THEN Ok(0) ELSE DrwError(o, "RegisterRead")]
    ELSE [log    |-> <<Access("DRW", "read", TRUE, Len(values), o)>>,
          values |-> IF o = "ok" THEN data ELSE values,
          ret    |-> IF o = "ok" THEN Ok(0) ELSE DrwError(o, "RegisterRead")]

ReadData ==
    /\ ap # NoAp
    /\ \E n \in 0 .. MaxWords, o \in ReadOutcome :
          \E data \in [1 .. n -> WordSample] :
             LET values == [i \in 1 .. n |-> 0]
                 r == read_data(ap, values, data, o)
             IN  call' = [op |-> "read_data", arg |-> [values |-> values, data |-> data],
                          pre |-> [tar |-> tar, tar2 |-> tar2], prev |-> NoPrev,
                          log |-> r.log, ret |-> [r.ret EXCEPT !.val = r.values]]
    /\ UNCHANGED <<ap, tar, tar2>>
    /\ UNCHANGED <<uwVars, diVars>>

\* The words handed to the interface travel in the val field of the access.
write_data(self, values, o) ==
    IF Len(values) = 1
    THEN [log |-> <<Access("DRW", "write", FALSE, <<values[1]>>, o)>>,
          ret |-> IF o = "ok" THEN Ok(0) ELSE DrwError(o, "RegisterWrite")]
    ELSE [log |-> <<Access("DRW", "write", TRUE, values, o)>>,
          ret |-> IF o = "ok" THEN Ok(0) ELSE DrwError(o, "RegisterWrite")]

WriteData ==
    /\ ap # NoAp
    /\ \E values \in Slices(MaxWords), o \in ReadOutcome :
          LET r == write_data(ap, values, o)
          IN  call' = [op |-> "write_data", arg |-> [values |-> values, data |-> <<>>],
                       pre |-> [tar |-> tar, tar2 |-> tar2], prev |-> NoPrev,
                       log |-> r.log, ret |-> r.ret]
    /\ UNCHANGED <<ap, tar, tar2>>
    /\ UNCHANGED <<uwVars, diVars>>

\* ------------------------------------------------------------------------
\* MemoryAp::new
\* ------------------------------------------------------------------------

\* What the raw read of IDR and its conversion can deliver: the read fails
\* or is dropped, the word does not parse as an IDR, or it parses with one
\* of the values of ApType in its TYPE field.
IdrOutcome ==
    [read : {"err", "cancel"}, parses : {FALSE}, TYPE : {"JtagComAp"}]
    \cup [read : {"ok"}, parses : {FALSE}, TYPE : {"JtagComAp"}]
    \cup [read : {"ok"}, parses : {TRUE}, TYPE : ApType]

\* MemoryAp::new with two arms of the dispatch exchanged.
MemoryAp_new_swapped(idr, ctor, lae) ==
    LET rdIdr == Access("IDR", "raw_read", FALSE, idr.TYPE, idr.read)
        built == IF idr.TYPE = "AmbaAhb5Hprot" THEN "AmbaAhb5"
                 ELSE IF idr.TYPE = "AmbaAhb5" THEN "AmbaAhb5Hprot"
                 ELSE idr.TYPE
        mk == Access(built, "new", FALSE, 0, ctor)
    IN  IF idr.read # "ok"
        THEN [log |-> <<rdIdr>>, ret |-> Propagate(idr.read)]
        ELSE IF ~idr.parses
        THEN [log |-> <<rdIdr>>, ret |-> Err("RegisterParse")]
        ELSE IF idr.TYPE = "JtagComAp"
        THEN [log |-> <<rdIdr>>, ret |-> Err("WrongApType")]
        ELSE IF ctor # "ok"
        THEN [log |-> <<rdIdr, mk>>, ret |-> Propagate(ctor)]
        ELSE [log |-> <<rdIdr, mk>>, ret |-> Ok([variant |-> built, lae |-> lae])]

\* idr: outcome of the IDR read; ctor: outcome of the variant's own
\* constructor (awaited with `?`); lae: the capability the variant resolves.
\* The result holds the constructed facade in ret.val.
MemoryAp_new(idr, ctor, lae) ==
    LET rdIdr == Access("IDR", "raw_read", FALSE, idr.TYPE, idr.read)
        mk == Access(idr.TYPE, "new", FALSE, 0, ctor)
    IN  IF idr.read # "ok"
        THEN [log |-> <<rdIdr>>, ret |-> Propagate(idr.read)]
        ELSE IF ~idr.parses
        THEN [log |-> <<rdIdr>>, ret |-> Err("RegisterParse")]
        ELSE IF idr.TYPE = "JtagComAp"
        THEN [log |-> <<rdIdr>>, ret |-> Err("WrongApType")]
        ELSE IF ctor # "ok"
        THEN [log |-> <<rdIdr, mk>>, ret |-> Propagate(ctor)]
        ELSE [log |-> <<rdIdr, mk>>, ret |-> Ok([variant |-> idr.TYPE, lae |-> lae])]

New ==
    /\ \E idr \in IdrOutcome, ctor \in ReadOutcome, lae \in BOOLEAN :
          LET r == MemoryAp_new(idr, ctor, lae)
          IN  /\ call' = [op |-> "new", arg |-> idr,
                          pre |-> [tar |-> tar, tar2 |-> tar2], prev |-> NoPrev,
                          log |-> r.log, ret |-> r.ret]
              /\ ap' = IF r.ret.kind = "Ok" THEN r.ret.val ELSE ap
    /\ UNCHANGED <<tar, tar2>>
    /\ UNCHANGED <<uwVars, diVars>>

\* ------------------------------------------------------------------------
\* status / generic_status
\* ------------------------------------------------------------------------

\* Number of values of the part of a CSW word that the generic ADIv5 layout
\* describes; the variant-specific fields lie above it.
CswGenericMod == 4

\* Number of values of the variant-specific part of a CSW word.
CswSpecificMod == 2

\* A CSW value of the wrapped variant's own register type.
VariantCsw == [layout : {"variant"}, generic : 0 .. CswGenericMod - 1,
               specific : 0 .. CswSpecificMod - 1]

\* Register -> u32 (`.into()`).
CswIntoU32(csw) ==
    IF csw.layout = "variant" THEN csw.specific * CswGenericMod + csw.generic
    ELSE csw.generic

\* u32 -> registers::CSW (`.try_into()`): only the fields of the generic
\* layout are kept; the last encoding of the generic part is reserved and
\* does not parse.
CswTryFromU32(raw) ==
    IF raw % CswGenericMod = CswGenericMod - 1
    THEN Err("RegisterParse")
    ELSE Ok([layout |-> "generic", generic |-> raw % CswGenericMod, specific |-> 0])

\* status of a wrapped variant: its CSW register, read and decoded into the
\* variant's own CSW type.
variant_status(csw, o) == IF o = "ok" THEN Ok(csw) ELSE Propagate(o)

\* The default method of the trait, over the status of the same object.
generic_status(statusResult) ==
    IF statusResult.kind # "Ok" THEN statusResult
    ELSE CswTryFromU32(CswIntoU32(statusResult.val))

\* status forwarding to the wrapped variant's status.
status_full(self, csw, o) == variant_status(csw, o)

\* impl MemoryApType for MemoryAp: status forwards to the wrapped variant's
\* generic_status.
status(self, csw, o) == generic_status(variant_status(csw, o))

Status ==
    /\ ap # NoAp
    /\ \E csw \in VariantCsw, o \in ReadOutcome :
          call' = [op |-> "status", arg |-> csw,
                   pre |-> [tar |-> tar, tar2 |-> tar2], prev |-> NoPrev,
                   log |-> <<Access("CSW", "read", FALSE, CswIntoU32(csw), o)>>,
                   ret |-> status(ap, csw, o)]
    /\ UNCHANGED <<ap, tar, tar2>>
    /\ UNCHANGED <<uwVars, diVars>>

\* generic_status called on the facade: the default method over the
\* facade's status.
GenericStatus ==
    /\ ap # NoAp
    /\ \E csw \in VariantCsw, o \in ReadOutcome :
          call' = [op |-> "generic_status", arg |-> csw,
                   pre |-> [tar |-> tar, tar2 |-> tar2], prev |-> NoPrev,
                   log |-> <<Access("CSW", "read", FALSE, CswIntoU32(csw), o)>>,
                   ret |-> generic_status(status(ap, csw, o))]
    /\ UNCHANGED <<ap, tar, tar2>>
    /\ UNCHANGED <<uwVars, diVars>>

\* ------------------------------------------------------------------------
\* Stack-frame iterator: values and debug information
\* ------------------------------------------------------------------------

\* Option<T>.
None == <<>>

Some(v) == <<v>>

\* frame_count stops counting here; it is a u64 in the program and only
\* numbers the frames for which no function DIE is found.
MaxFrameCount == 4

\* The code addresses of the debug information: foo (halted in) and main.
PcFoo == \H1024

PcMain == \H10A0

CodeAddrs == {PcFoo, PcMain}

\* The stack pointer at the halt.
StackPointer == \H0100

\* The DWARF register numbers the rollback loop walks.
DwarfRegs == 0 .. 15

\* ------------------------------------------------------------------------
\* Registers
\* ------------------------------------------------------------------------

get_canonical_frame_address(regs) ==
    IF regs.architecture = "Arm" THEN regs.values[13] ELSE regs.values[2]

\* The CFA written to register 13 whatever the architecture.
set_canonical_frame_address_r13(regs, value) == [regs EXCEPT !.values[13] = value]

set_canonical_frame_address(regs, value) ==
    LET register_address == IF regs.architecture = "Arm" THEN 13 ELSE 2
    IN  [regs EXCEPT !.values[register_address] = value]

get_program_counter(regs) ==
    IF regs.architecture = "Arm" THEN regs.values[14] ELSE regs.values[1]

get_return_address(regs) ==
    IF regs.architecture = "Arm" THEN regs.values[15] ELSE regs.values[1]

get_by_dwarf_register_number(regs, register_number) ==
    IF register_number \in DOMAIN regs.values THEN regs.values[register_number] ELSE None

set_by_dwarf_register_number(regs, register_number, value) ==
    [regs EXCEPT !.values[register_number] = value]

\* ------------------------------------------------------------------------
\* Debug information
\* ------------------------------------------------------------------------

NoInlining == [kind |-> "NoInlining", call_line |-> None, call_file |-> None,
               call_column |-> None]

\* The call site recorded in the DW_TAG_inlined_subroutine covering address.
InlinedCallSite(address) ==
    [kind |-> "InlinedCallSite", call_line |-> Some(17), call_file |-> Some("a.rs"),
     call_column |-> Some(9)]

\* The row of the line program for address.
get_source_location(address) ==
    IF address \in CodeAddrs
    THEN Some([line |-> Some(address % 256), column |-> Some("LeftEdge"),
               file |-> Some("main.rs")])
    ELSE None

\* What the DIE tree holds for an address: whether a DW_TAG_subprogram
\* covers it, whether a DW_TAG_inlined_subroutine inside that subprogram
\* covers it, and whether its variables can be resolved.
DieInfo ==
    {[sub |-> FALSE, inl |-> FALSE, vars_ok |-> TRUE],
     [sub |-> TRUE, inl |-> FALSE, vars_ok |-> TRUE],
     [sub |-> TRUE, inl |-> FALSE, vars_ok |-> FALSE],
     [sub |-> TRUE, inl |-> TRUE, vars_ok |-> TRUE]}

NoDie == [sub |-> FALSE, inl |-> FALSE, vars_ok |-> TRUE]

DieAt(address) == IF address \in DOMAIN dwarf THEN dwarf[address] ELSE NoDie

\* UnitInfo::get_function_die, over all units: the inlined subroutine at
\* the address if find_inlined asks for it and there is one, else the
\* subprogram covering the address.
get_function_die(address, find_inlined) ==
    LET d == DieAt(address)
    IN  IF ~d.sub THEN None
        ELSE IF find_inlined /\ d.inl
        THEN Some([is_inline |-> TRUE, name |-> <<"inlined", address>>, vars_ok |-> d.vars_ok])
        ELSE Some([is_inline |-> FALSE, name |-> <<"subprogram", address>>, vars_ok |-> d.vars_ok])

\* The register rules of the call frame information.
Undefined == [kind |-> "Undefined", o |-> 0]

SameValue == [kind |-> "SameValue", o |-> 0]

Offset(o) == [kind |-> "Offset", o |-> o]

\* Any rule the loop has no arm for (Register, Expression, ...).
OtherRule == [kind |-> "Other", o |-> 0]

RegisterAndOffset(register, offset) ==
    [kind |-> "RegisterAndOffset", register |-> register, offset |-> offset]

ExpressionCfa == [kind |-> "Expression", register |-> 0, offset |-> 0]

\* One row of unwind information: the CFA rule and a rule per register.
\* The link registers (14 on ARM, 1 on RISC-V) get ra, every other register
\* is Undefined.
UnwindRow(cfa, ra) ==
    [found |-> TRUE, cfa |-> cfa,
     rules |-> [i \in DwarfRegs |-> IF i \in {1, 14} THEN ra ELSE Undefined]]

\* No FDE covers the address.
NoUnwindInfo == [found |-> FALSE, cfa |-> ExpressionCfa, rules |-> [i \in DwarfRegs |-> Undefined]]

UnwindRows ==
    {NoUnwindInfo, UnwindRow(ExpressionCfa, Undefined)}
    \cup {UnwindRow(cfa, ra) :
            cfa \in {RegisterAndOffset(13, 0), RegisterAndOffset(13, 16), RegisterAndOffset(7, 8)},
            ra \in {Undefined, Offset(-4), Offset(-8), OtherRule}}

unwind_info_for_address(address) ==
    IF address \in DOMAIN frame_section THEN frame_section[address] ELSE NoUnwindInfo

\* core.read of four bytes, as the little-endian word they hold.
read_word(addr) == IF addr \in DOMAIN memory THEN Some(memory[addr]) ELSE None

\* ------------------------------------------------------------------------
\* DebugInfo::get_stackframe_info
\* ------------------------------------------------------------------------

unknown_function(address) == <<"unknown function", address>>

UnwrapOr(opt, default) == IF opt = None THEN default ELSE opt[1]

\* The variables of a frame stand for the arguments they were resolved
\* with: the frame base and the program counter handed to
\* get_function_variables; None for the empty list of an unknown function.
get_stackframe_info(address, count, regs, inlined_function) ==
    LET die == get_function_die(address, inlined_function)
    IN  IF die # None
        THEN IF ~die[1].vars_ok
             THEN Err("DebugError")
             ELSE Ok([id              |-> UnwrapOr(get_canonical_frame_address(regs), 0),
                      function_name   |-> die[1].name,
                      source_location |-> get_source_location(address),
                      registers       |-> regs,
                      pc              |-> address % U32,
                      variables       |->
                          Some([frame_base |->
                                    UnwrapOr(get_canonical_frame_address(regs), 0),
                                program_counter |->
                                    UnwrapOr(get_return_address(regs), 0)])])
        ELSE Ok([id              |-> count,
                 function_name   |-> unknown_function(address),
                 source_location |-> get_source_location(address),
                 registers       |-> regs,
                 pc              |-> address % U32,
                 variables       |-> None])

\* ------------------------------------------------------------------------
\* StackFrameIterator::next
\* ------------------------------------------------------------------------

\* The registers that keep their value under an Undefined rule.
CalleeSaved == {4, 5, 6, 7, 8, 10, 11, 14}

\* The loop with every register from 4 to 11 kept under an Undefined rule.
RECURSIVE unwind_registers_r4_to_r11(_, _, _, _, _)
unwind_registers_r4_to_r11(regs, i, unwind_info, current_cfa, cur_pc) ==
    IF i = 16 THEN [registers |-> regs, end |-> "done"]
    ELSE IF i = 13
    THEN unwind_registers_r4_to_r11(regs, i + 1, unwind_info, current_cfa, cur_pc)
    ELSE LET register_rule == unwind_info.rules[i]
             addr == (current_cfa[1] + register_rule.o) % U32
             new_value ==
                 IF register_rule.kind = "Undefined"
                 THEN IF i \in (4 .. 11) \cup {14}
                      THEN get_by_dwarf_register_number(regs, i)
                      ELSE IF i = 15 THEN Some(cur_pc % U32)
                      ELSE None
                 ELSE IF register_rule.kind = "SameValue"
                 THEN get_by_dwarf_register_number(regs, i)
                 ELSE read_word(addr)
         IN  IF register_rule.kind = "Other"
             THEN [registers |-> regs, end |-> "panic"]
             ELSE IF register_rule.kind = "Offset" /\ read_word(addr) = None
             THEN [registers |-> regs, end |-> "read_failed"]
             ELSE unwind_registers_r4_to_r11(
                      set_by_dwarf_register_number(regs, i, new_value),
                      i + 1, unwind_info, current_cfa, cur_pc)

\* The loop `for i in 0..16` from register i on: the register file it
\* leaves and how it ended ("done", "read_failed": return None, "panic":
\* unimplemented!()).
RECURSIVE unwind_registers(_, _, _, _, _)
unwind_registers(regs, i, unwind_info, current_cfa, cur_pc) ==
    IF i = 16 THEN [registers |-> regs, end |-> "done"]
    ELSE IF i = 13 THEN unwind_registers(regs, i + 1, unwind_info, current_cfa, cur_pc)
    ELSE LET register_rule == unwind_info.rules[i]
             addr == (current_cfa[1] + register_rule.o) % U32
             new_value ==
                 IF register_rule.kind = "Undefined"
                 THEN IF i \in CalleeSaved THEN get_by_dwarf_register_number(regs, i)
                      ELSE IF i = 15 THEN Some(cur_pc % U32)
                      ELSE None
                 ELSE IF register_rule.kind = "SameValue"
                 THEN get_by_dwarf_register_number(regs, i)
                 ELSE read_word(addr)
         IN  IF register_rule.kind = "Other"
             THEN [registers |-> regs, end |-> "panic"]
             ELSE IF register_rule.kind = "Offset" /\ read_word(addr) = None
             THEN [registers |-> regs, end |-> "read_failed"]
             ELSE unwind_registers(set_by_dwarf_register_number(regs, i, new_value),
                                   i + 1, unwind_info, current_cfa, cur_pc)

\* pc & !1
ClearBit0(v) == v - (v % 2)

\* The program counter of the calling frame without the loop check.
advance_pc_unchecked(cur_pc, regs) ==
    LET link == get_program_counter(regs)
    IN  IF link = None THEN None ELSE Some(ClearBit0(link[1]))

\* The program counter of the calling frame taken from the slot that
\* get_return_address reads.
advance_pc_return_address(cur_pc, regs) ==
    LET link == get_return_address(regs)
        new_pc == IF link = None THEN None ELSE Some(ClearBit0(link[1]))
    IN  IF new_pc = Some(cur_pc) THEN None ELSE new_pc

\* The end of a physical step: the program counter of the calling frame is
\* the link register without its lowest bit; None if it has no value or
\* the program counter did not change.
advance_pc(cur_pc, regs) ==
    LET link == get_program_counter(regs)
        new_pc == IF link = None THEN None ELSE Some(ClearBit0(link[1]))
    IN  IF new_pc = Some(cur_pc) THEN None ELSE new_pc

\* The frame as next() yields it: a frame built without a consumed call site
\* keeps the location get_stackframe_info gave it.
update_location_never(frame, inline_call_site_info) == frame

\* The arm Ok(mut frame) of next(): if the call began with the iterator at
\* the call site of an inlined function, the frame's source location
\* becomes that call site.
update_location(frame, inline_call_site_info) ==
    IF inline_call_site_info # None
    THEN [frame EXCEPT !.source_location =
             Some([line   |-> inline_call_site_info[1].call_line,
                   column |-> IF inline_call_site_info[1].call_column = None
                              THEN None
                              ELSE IF inline_call_site_info[1].call_column[1] = 0
                              THEN Some("LeftEdge")
                              ELSE inline_call_site_info[1].call_column,
                   file   |-> inline_call_site_info[1].call_file])]
    ELSE frame

\* What a call of next() did, for the properties: the program counter it
\* ran at, the CFA it computed, whether it found the program counter inside
\* an inlined function, and how far it got.
Step(cur_pc, cfa, inlined, end) ==
    [pc |-> cur_pc, cfa |-> cfa, in_inlined_function |-> inlined, end |-> end]

\* The iterator it after one call of next(), with the value returned.
\* ret is None, Some(frame), or the call does not return (panic).
\* Variant of the inline detection that also runs in the step that consumes
\* the call-site marker.
inline_detection_repeated(inline_call_site, die) ==
    die # None /\ die[1].is_inline

\* The unit loop of next(): skipped when the previous step left a call-site
\* marker, otherwise true when the function DIE at the address is inlined.
inline_detection(inline_call_site, die) ==
    ~inline_call_site /\ die # None /\ die[1].is_inline

next(it) ==
    IF it.pc = None
    THEN [it |-> it, ret |-> None, panic |-> FALSE, step |-> Step(None, None, FALSE, "no_pc")]
    ELSE
    LET cur_pc == it.pc[1]
        inline_call_site == it.inlining_state.kind = "InlinedCallSite"
        die == get_function_die(cur_pc, TRUE)
        in_inlined_function == inline_detection(inline_call_site, die)
        inlining1 == IF inline_call_site THEN NoInlining
                     ELSE IF in_inlined_function THEN InlinedCallSite(cur_pc)
                     ELSE it.inlining_state
        inline_call_site_info == IF inline_call_site THEN Some(it.inlining_state) ELSE None
        it1 == [it EXCEPT !.inlining_state = inlining1]
        unwind_info == unwind_info_for_address(cur_pc)
        reg_val == get_by_dwarf_register_number(it.registers, unwind_info.cfa.register)
        current_cfa == IF reg_val = None THEN None
                       ELSE Some((reg_val[1] + unwind_info.cfa.offset) % U32)
        info == get_stackframe_info(cur_pc, it.frame_count, it.registers, in_inlined_function)
        frame == update_location(info.val, inline_call_site_info)
        return_frame == IF info.kind = "Ok" THEN Some(frame) ELSE None
        rolled == IF in_inlined_function
                  THEN [registers |-> it.registers, end |-> "done"]
                  ELSE unwind_registers(it.registers, 0, unwind_info, current_cfa, cur_pc)
        registers2 == IF in_inlined_function THEN it.registers
                      ELSE set_canonical_frame_address(rolled.registers, current_cfa)
        count2 == IF it.frame_count < MaxFrameCount THEN it.frame_count + 1
                  ELSE it.frame_count
        pc2 == IF in_inlined_function THEN it.pc ELSE advance_pc(cur_pc, registers2)
    IN  IF ~unwind_info.found
        THEN [it |-> it1, ret |-> None, panic |-> FALSE,
              step |-> Step(it.pc, None, in_inlined_function, "no_unwind_info")]
        ELSE IF unwind_info.cfa.kind = "Expression"
        THEN [it |-> it1, ret |-> None, panic |-> TRUE,
              step |-> Step(it.pc, None, in_inlined_function, "panic")]
        ELSE IF reg_val = None
        THEN [it |-> it1, ret |-> None, panic |-> FALSE,
              step |-> Step(it.pc, None, in_inlined_function, "no_cfa")]
        ELSE IF rolled.end = "panic"
        THEN [it |-> [it1 EXCEPT !.registers = rolled.registers], ret |-> None, panic |-> TRUE,
              step |-> Step(it.pc, current_cfa, in_inlined_function, "panic")]
        ELSE IF rolled.end = "read_failed"
        THEN [it |-> [it1 EXCEPT !.registers = rolled.registers], ret |-> None, panic |-> FALSE,
              step |-> Step(it.pc, current_cfa, in_inlined_function, "read_failed")]
        ELSE [it |-> [pc |-> pc2, registers |-> registers2, inlining_state |-> inlining1,
                      frame_count |-> count2],
              ret |-> return_frame, panic |-> FALSE,
              step |-> Step(it.pc, current_cfa, in_inlined_function,
                            IF return_frame = None THEN "frame_error" ELSE "frame")]

\* The program has not panicked.
Running == step.end # "panic"

\* What the next call of next() depends on, besides the debug information and
\* the target memory: frame_count only numbers the frames of unknown functions.
IteratorState ==
    [pc |-> pc, registers |-> registers, inlining_state |-> inlining_state]

NextFrame ==
    /\ Running
    /\ \E r \in {next([pc |-> pc, registers |-> registers,
                       inlining_state |-> inlining_state, frame_count |-> frame_count])} :
           /\ pc' = r.it.pc
           /\ registers' = r.it.registers
           /\ inlining_state' = r.it.inlining_state
           /\ frame_count' = r.it.frame_count
           /\ yielded' = r.ret
           /\ before' = [ret |-> yielded, in_inlined_function |-> step.in_inlined_function,
                        end |-> step.end]
           /\ step' = r.step
    /\ visited' = visited \cup {IteratorState}
    /\ UNCHANGED <<frame_section, dwarf, memory>>
    /\ UNCHANGED <<apVars, diVars>>

\* The addresses of the stack the core can read, and the return addresses
\* they may hold (with the Thumb bit).
StackSlots == {StackPointer - 8, StackPointer - 4, StackPointer + 8, StackPointer + 12}

\* DebugInfo::try_unwind at PcFoo on a halted core: StackFrameIterator::new
\* with the registers read by Registers::from_core; a register whose read
\* failed has no value.
UnwindInitOver(archs, rows, die_infos) ==
    /\ pc = Some(PcFoo)
    /\ \E arch \in archs, lr \in {Some(PcMain + 1), None},
          r7 \in {Some(StackPointer - 8), None} :
          registers =
             [architecture |-> arch,
              values |-> [i \in DwarfRegs |->
                            IF i = 13 THEN Some(StackPointer)
                            ELSE IF i \in {1, 14} THEN lr
                            ELSE IF i = 7 THEN r7
                            ELSE IF i = 15 THEN Some(PcFoo)
                            ELSE IF i = 2 THEN Some(StackPointer)
                            ELSE Some(i)]]
    /\ inlining_state = NoInlining
    /\ frame_count = 0
    /\ frame_section \in [CodeAddrs -> rows]
    /\ dwarf \in [CodeAddrs -> die_infos]
    /\ \E low \in {PcFoo, PcMain + 1}, high \in {PcFoo, PcMain + 1} :
          memory = [a \in StackSlots |->
                      IF a = StackPointer - 8 THEN low
                      ELSE IF a = StackPointer - 4 THEN high
                      ELSE IF a = StackPointer + 8 THEN PcFoo
                      ELSE PcMain + 1]
    /\ yielded = None
    /\ before = [ret |-> None, in_inlined_function |-> FALSE, end |-> "new"]
    /\ step = Step(None, None, FALSE, "new")
    /\ visited = {}

UnwindInit == UnwindInitOver({"Arm", "Riscv"}, UnwindRows, DieInfo)

\* Unwind information for the rollback of single registers: the CFA is the
\* stack pointer or 16 above it, the link registers are read from CFA - 4,
\* registers 0 and 15 follow one rule and register 7 another, every other
\* register is Undefined.  CFA - 16 is never a readable address.
RollbackRows ==
    {[found |-> TRUE, cfa |-> cfa,
      rules |-> [i \in DwarfRegs |->
                   IF i \in {0, 15} THEN r0
                   ELSE IF i = 7 THEN r7
                   ELSE IF i \in {1, 14} THEN Offset(-4)
                   ELSE Undefined]] :
        cfa \in {RegisterAndOffset(13, 0), RegisterAndOffset(13, 16)},
        r0 \in {Undefined, SameValue, Offset(-8)},
        r7 \in {Undefined, SameValue, Offset(-16)}}

\* try_unwind in a program whose functions are all known and none inlined.
RollbackInit ==
    UnwindInitOver({"Arm", "Riscv"}, RollbackRows,
                   {[sub |-> TRUE, inl |-> FALSE, vars_ok |-> TRUE]})

UnwindNext ==
    \/ NextFrame

\* ------------------------------------------------------------------------
\* Line programs: DebugInfo::get_source_location, get_breakpoint_location
\* ------------------------------------------------------------------------

\* One row of a line program.  line is 0 where the row has no line, column
\* is 0 for the left edge; file is the path the row's file entry resolves to.
LineRow(address, file, line, column, end_sequence) ==
    [address |-> address, file |-> file, line |-> line, column |-> column,
     end_sequence |-> end_sequence]

\* The addresses of the rows: two sequences, the first with two rows, each
\* closed by its end-of-sequence row.
RowA == 100
RowB == 200
EndAB == 300
RowC == 400
EndC == 500

SourceFiles == {"a.rs", "b.rs"}

SourceLines == {7, 8}

SourceColumns == {0, 4, 9}

\* An end-of-sequence row carries the registers of the row before it.
EndOf(row, address) == [row EXCEPT !.address = address, !.end_sequence = TRUE]

\* The sequences of the line programs under test, rows at strictly
\* increasing addresses.
SequenceAB(rowA, rowB) == <<rowA, rowB, EndOf(rowB, EndAB)>>

SequenceC(rowC) == <<rowC, EndOf(rowC, EndC)>>

\* gimli's LineSequence: [start, end) is from the first row to the
\* end-of-sequence row.
SeqStart(seq) == seq[1].address

SeqEnd(seq) == seq[Len(seq)].address

\* A compilation unit: its address ranges and its line program (None if it
\* has none), the line program with its file entries and its sequences.
Unit(ranges, file_names, sequences) ==
    [ranges |-> ranges,
     line_program |-> Some([file_names |-> file_names, sequences |-> sequences])]

Range(begin, end) == [begin |-> begin, end |-> end]

SeqRange(seq) == Range(SeqStart(seq), SeqEnd(seq))

\* The debug information of a session that queries locations: the two
\* sequences in one unit or in two, the ranges of a unit covering each of
\* its sequences or everything from the first to the last, and the file
\* table with or without a second entry for the same path.
LineUnits ==
    LET rowsA == {LineRow(RowA, "a.rs", 7, c, FALSE) : c \in SourceColumns}
        rowsB == {LineRow(RowB, f, l, c, FALSE) :
                     f \in SourceFiles, l \in SourceLines, c \in SourceColumns}
        rowsC == {LineRow(RowC, f, l, c, FALSE) :
                     f \in SourceFiles, l \in {0, 7}, c \in {4, 9}}
        tables == {<<"a.rs", "b.rs">>, <<"a.rs", "b.rs", "a.rs">>}
    IN  UNION {
          LET ab == SequenceAB(a, b)
              sc == SequenceC(c)
          IN  {<<Unit(<<SeqRange(ab), SeqRange(sc)>>, t, <<ab, sc>>)>>,
               <<Unit(<<Range(SeqStart(ab), SeqEnd(sc))>>, t, <<ab, sc>>)>>,
               <<Unit(<<SeqRange(ab)>>, t, <<ab>>), Unit(<<SeqRange(sc)>>, t, <<sc>>)>>,
               <<[ranges |-> <<SeqRange(ab)>>, line_program |-> None],
                 Unit(<<SeqRange(sc)>>, t, <<sc>>)>>}
          : a \in rowsA, b \in rowsB, c \in rowsC, t \in tables}

\* SourceLocation of a row.
RowLocation(row) ==
    [line   |-> IF row.line = 0 THEN None ELSE Some(row.line),
     column |-> Some(IF row.column = 0 THEN "LeftEdge" ELSE row.column),
     file   |-> Some(row.file)]

\* A loop body that returned from the function, or ran to its end.
Return(v) == [returned |-> TRUE, val |-> v]

Continue == [returned |-> FALSE, val |-> None]

\* A loop over the rows that returns only a row at exactly the address.
RECURSIVE scan_rows_exact(_, _, _, _)
scan_rows_exact(rows, i, previous_row, address) ==
    IF i > Len(rows) THEN Continue
    ELSE IF rows[i].address = address THEN Return(Some(RowLocation(rows[i])))
    ELSE scan_rows_exact(rows, i + 1, Some(rows[i]), address)

\* The loop over the rows of the target sequence from row i on.
RECURSIVE scan_rows(_, _, _, _)
scan_rows(rows, i, previous_row, address) ==
    IF i > Len(rows) THEN Continue
    ELSE IF rows[i].address = address THEN Return(Some(RowLocation(rows[i])))
    ELSE IF rows[i].address > address /\ previous_row # None
    THEN Return(Some(RowLocation(previous_row[1])))
    ELSE scan_rows(rows, i + 1, Some(rows[i]), address)

\* for seq in sequences: the first sequence whose range holds the address.
RECURSIVE find_target_seq(_, _, _)
find_target_seq(sequences, i, address) ==
    IF i > Len(sequences) THEN None
    ELSE IF SeqStart(sequences[i]) <= address /\ address < SeqEnd(sequences[i])
    THEN Some(sequences[i])
    ELSE find_target_seq(sequences, i + 1, address)

\* The loop over the ranges of a unit from range i on.
RECURSIVE scan_ranges(_, _, _)
scan_ranges(unit, i, address) ==
    IF i > Len(unit.ranges) THEN Continue
    ELSE IF unit.ranges[i].begin <= address /\ address < unit.ranges[i].end
    THEN IF unit.line_program = None THEN Return(None)
         ELSE LET target_seq == find_target_seq(unit.line_program[1].sequences, 1, address)
              IN  IF target_seq = None THEN Return(None)
                  ELSE LET found == scan_rows(target_seq[1], 1, None, address)
                       IN  IF found.returned THEN found
                           ELSE scan_ranges(unit, i + 1, address)
    ELSE scan_ranges(unit, i + 1, address)

\* DebugInfo::get_source_location over the units us from unit i on.
RECURSIVE scan_units(_, _, _)
scan_units(us, i, address) ==
    IF i > Len(us) THEN None
    ELSE LET found == scan_ranges(us[i], 1, address)
         IN  IF found.returned THEN found.val ELSE scan_units(us, i + 1, address)

get_source_location_in(us, address) == scan_units(us, 1, address)

\* line_program.rows(): the rows of all sequences, one sequence after another.
RECURSIVE all_rows(_, _)
all_rows(sequences, i) ==
    IF i > Len(sequences) THEN <<>>
    ELSE sequences[i] \o all_rows(sequences, i + 1)

\* (row.address(), row.column()) of a candidate row.
Location(row) == [address |-> row.address, column |-> row.column]

\* One pass over the rows of a line program: the rows of the path with
\* the line, in the order of the rows.
matching_rows(line_program, path, line) ==
    LET rows == SelectSeq(all_rows(line_program.sequences, 1),
                          LAMBDA row : row.file = path /\ row.line # 0 /\ row.line = line)
    IN  [i \in 1 .. Len(rows) |-> Location(rows[i])]

\* for file_name in header.file_names(): one pass over the rows for every
\* file entry that resolves to the path.
RECURSIVE scan_file_names(_, _, _, _)
scan_file_names(line_program, i, path, line) ==
    IF i > Len(line_program.file_names) THEN <<>>
    ELSE (IF line_program.file_names[i] = path
          THEN matching_rows(line_program, path, line) ELSE <<>>)
         \o scan_file_names(line_program, i + 1, path, line)

\* The candidate locations of all units, in the order they are pushed.
RECURSIVE find_locations(_, _, _, _)
find_locations(us, i, path, line) ==
    IF i > Len(us) THEN <<>>
    ELSE (IF us[i].line_program = None THEN <<>>
          ELSE scan_file_names(us[i].line_program[1], 1, path, line))
         \o find_locations(us, i + 1, path, line)

\* The comparator of locations.sort_by: by column, then by address.
LocationBefore(a, b) ==
    IF a.column # b.column THEN a.column < b.column ELSE a.address < b.address

\* x put into the sorted locations behind everything that is not after it.
RECURSIVE insert_location(_, _)
insert_location(sorted, x) ==
    IF sorted = <<>> THEN <<x>>
    ELSE IF LocationBefore(x, Head(sorted)) THEN <<x>> \o sorted
    ELSE <<Head(sorted)>> \o insert_location(Tail(sorted), x)

RECURSIVE sort_from(_, _, _)
sort_from(locations, i, sorted) ==
    IF i > Len(locations) THEN sorted
    ELSE sort_from(locations, i + 1, insert_location(sorted, locations[i]))

\* The locations left in the order they were found.
sort_locations_unsorted(locations) == locations

\* locations.sort_by(..), a stable sort.
sort_locations(locations) == sort_from(locations, 1, <<>>)

\* for loc in &locations[1..], from index i on.
RECURSIVE best_location(_, _, _, _)
best_location(locations, i, best, search_col) ==
    IF i > Len(locations) THEN best
    ELSE IF locations[i].column > search_col THEN best
    ELSE best_location(locations, i + 1,
                       IF best.column < locations[i].column THEN locations[i] ELSE best,
                       search_col)

\* DebugInfo::get_breakpoint_location on debug information that parses.
get_breakpoint_location(us, path, line, column) ==
    LET found == find_locations(us, 1, path, line)
        locations == sort_locations(found)
    IN  IF Len(found) = 0 THEN Ok(None)
        ELSE IF Len(found) = 1 THEN Ok(Some(found[1].address))
        ELSE IF column # None
        THEN Ok(Some(best_location(locations, 2, locations[1], column[1]).address))
        ELSE Ok(Some(locations[1].address))

\* The addresses asked for: below, at, between and behind the rows.
AddressSample ==
    {RowA - 1, RowA, RowA + 50, RowB - 1, RowB, RowB + 50, EndAB - 1, EndAB,
     EndAB + 50, RowC - 1, RowC, RowC + 50, EndC - 1, EndC}

GetSourceLocation ==
    /\ \E address \in AddressSample :
          query' = [op |-> "get_source_location", arg |-> [address |-> address],
                    ret |-> get_source_location_in(units, address)]
    /\ UNCHANGED <<units, apVars, uwVars>>

GetBreakpointLocation ==
    /\ \E path \in SourceFiles, line \in SourceLines,
          column \in {None} \cup {Some(c) : c \in SourceColumns \cup {6, 12}} :
          query' = [op |-> "get_breakpoint_location",
                    arg |-> [path |-> path, line |-> line, column |-> column],
                    ret |-> get_breakpoint_location(units, path, line, column)]
    /\ UNCHANGED <<units, apVars, uwVars>>

LineInit ==
    /\ units \in LineUnits
    /\ query = NoQuery

LineNext ==
    \/ GetSourceLocation
    \/ GetBreakpointLocation

\* ------------------------------------------------------------------------
\* Variables: the DIE tree and the Variable it is resolved to
\* ------------------------------------------------------------------------

\* u64::MAX and u32::MAX at the modelled width.
U64Max == U64 - 1

U32Max == U32 - 1

\* A debugging information entry with the attributes the resolver reads:
\* DW_AT_name, DW_AT_location or DW_AT_data_member_location, DW_AT_type,
\* DW_AT_const_value, DW_AT_byte_size, the bounds of the subrange child of
\* an array type, the scope attributes DW_AT_low_pc, DW_AT_high_pc and
\* DW_AT_ranges, DW_AT_discr and DW_AT_discr_value of a variant part and
\* its variants, DW_AT_abstract_origin and DW_AT_call_line of an inlined
\* subroutine, and the children.  An attribute is None if absent, else its
\* form and value.
Die(tag, name) ==
    [tag |-> tag, name |-> name, location |-> None, type |-> None,
     const_value |-> None, byte_size |-> 0, lower_bound |-> 0, upper_bound |-> 0,
     low_pc |-> None, high_pc |-> None, ranges |-> None,
     discr |-> None, discr_value |-> None,
     abstract_origin |-> None, call_line |-> None,
     children |-> <<>>]

Attr(form, value) == Some([form |-> form, value |-> value])

\* enum VariantRole.
NonVariant == [kind |-> "NonVariant", discriminant |-> 0]

VariantPart(discriminant) == [kind |-> "VariantPart", discriminant |-> discriminant]

Variant(discriminant) == [kind |-> "Variant", discriminant |-> discriminant]

\* Variable::new().
NewVariable ==
    [name |-> "", type_name |-> "", value |-> "", memory_location |-> 0,
     byte_size |-> 0, member_index |-> None, kind |-> "Named",
     inclusion |-> "Include", role |-> NonVariant, children |-> None]

\* Variable::set_value and Variable::get_value.
set_value(variable, value) == [variable EXCEPT !.value = value]

get_value(variable) == variable.value

\* Variable::add_child_variable: the child becomes the last child.
add_child_variable(variable, child) ==
    [variable EXCEPT !.children =
        Some((IF variable.children = None THEN <<>> ELSE variable.children[1])
             \o <<child>>)]

\* Result<(), DebugError> of a step that works on a variable, with the
\* variable as the step left it; Panicked if the step did not return.
Done(variable) == [kind |-> "Ok", err |-> "", var |-> variable]

Failed(err, variable) == [kind |-> "Err", err |-> err, var |-> variable]

Panicked(variable) == [kind |-> "Panic", err |-> "", var |-> variable]

\* core.read of one byte and of four bytes at a 32-bit address.
read_u8(address) ==
    IF address % U32 \in DOMAIN memory THEN Some(memory[address % U32] % 256) ELSE None

read_u32(address) ==
    IF address % U32 \in DOMAIN memory THEN Some(memory[address % U32] % U32) ELSE None

\* UnitInfo::extract_location for the forms of the location attribute:
\* an expression that evaluates to an address, an expression that fails,
\* an offset from the parent, any other form.
extract_location(node, parent_variable, child_variable) ==
    IF node.location = None THEN child_variable
    ELSE LET form == node.location[1].form
             value == node.location[1].value
         IN  IF form = "Exprloc"
             THEN IF value = U32Max
                  THEN [child_variable EXCEPT !.memory_location = U64Max,
                                              !.value = "BUG: Cannot resolve due to rust-lang issue"]
                  ELSE [child_variable EXCEPT !.memory_location = value]
             ELSE IF form = "ExprlocError"
             THEN [child_variable EXCEPT !.memory_location = U64Max,
                                         !.value = "ERROR: expr_to_piece() returned 0 results"]
             ELSE IF form = "Udata"
             THEN [child_variable EXCEPT !.memory_location =
                      IF parent_variable.memory_location # U64Max
                      THEN parent_variable.memory_location + value ELSE value]
             ELSE set_value(child_variable,
                            "ERROR: extract_location() Could not extract location")

\* The type name extract_type starts with.
TypeName(node) == IF node.name = None THEN "<unnamed type>" ELSE node.name[1]

\* The enumerator the value of an enumeration names: the first child whose
\* value is the decimal string of the byte.
RECURSIVE find_enumerator(_, _, _)
find_enumerator(enumerator_values, i, this_enum_const_value) ==
    IF i > Len(enumerator_values) THEN "<ERROR: Unresolved enum value>"
    ELSE IF get_value(enumerator_values[i]) = this_enum_const_value
    THEN enumerator_values[i].name
    ELSE find_enumerator(enumerator_values, i + 1, this_enum_const_value)

\* The location of an array member of a base type.  The multiplication is
\* not checked: where it exceeds 64 bits a build with overflow checks
\* panics and a build without them wraps; the addition is checked.
member_location(child_variable, overflow_checks) ==
    LET product == child_variable.member_index[1] * child_variable.byte_size
        sum == child_variable.memory_location + (product % U64)
    IN  IF product >= U64 /\ overflow_checks THEN Panicked(child_variable)
        ELSE IF sum >= U64
        THEN Failed("Overflow calculating variable address", child_variable)
        ELSE Done([child_variable EXCEPT !.memory_location = sum])

\* The entry a DW_FORM_ref attribute names (entries_tree at the offset).
\* An entry that is named before it is complete, as the type of a member
\* of itself, is named by its offset in the unit.
RecursiveTypes ==
    [Node |->
        [Die("structure_type", Some("Node")) EXCEPT
            !.byte_size = 8,
            !.children =
                <<[Die("member", Some("value")) EXCEPT
                      !.location = Attr("Udata", 0),
                      !.type = Attr("UnitRef",
                                    [Die("base_type", Some("u8")) EXCEPT !.byte_size = 1])],
                  [Die("member", Some("next")) EXCEPT
                      !.location = Attr("Udata", 4),
                      !.type = Attr("UnitRef",
                                    [Die("pointer_type", Some("&Node")) EXCEPT
                                        !.byte_size = 4,
                                        !.type = Attr("UnitRef",
                                                      Die("offset", Some("Node")))])]>>]]

entries_tree(unit_ref) ==
    IF unit_ref.tag = "offset" THEN RecursiveTypes[unit_ref.name[1]] ELSE unit_ref

\* Variable::extract_value of a variable of a base type: the value read
\* at its location in decimal, or an error text.
extract_value(variable) ==
    IF variable.value # "" \/ variable.memory_location = U64Max THEN variable
    ELSE LET buff == IF variable.byte_size = 1 THEN read_u8(variable.memory_location)
                     ELSE read_u32(variable.memory_location)
         IN  IF buff = None THEN set_value(variable, "ERROR: core.read")
             ELSE set_value(variable, ToString(buff[1]))

\* str::parse::<u64>().unwrap_or(u64::MAX) of the value of a discriminant
\* of one byte.
parse_or_max(value) ==
    IF \E n \in 0 .. 255 : ToString(n) = value
    THEN CHOOSE n \in 0 .. 255 : ToString(n) = value
    ELSE U64Max

\* UnitInfo::extract_variant_discriminant of a DW_TAG_variant.
extract_variant_discriminant(node, variable) ==
    IF node.discr_value = None THEN [variable EXCEPT !.role = Variant(0)]
    ELSE IF node.discr_value[1].form = "Data1"
    THEN [variable EXCEPT !.role = Variant(node.discr_value[1].value)]
    ELSE IF node.discr_value[1].form = "Malformed"
    THEN [variable EXCEPT !.role = NonVariant,
                          !.value = "ERROR: Retrieving DW_AT_discr_value"]
    ELSE [variable EXCEPT !.role = Variant(U64Max),
                          !.value = "UNIMPLEMENTED: Attribute Value for DW_AT_discr_value"]

\* Variant of the scope of a lexical block that reads a DW_AT_high_pc of
\* form udata as an address.
lexical_block_scope_high_is_address(node, program_counter) ==
    LET low_pc == IF node.low_pc # None /\ node.low_pc[1].form = "Addr"
                  THEN node.low_pc[1].value ELSE U64Max
        high_pc == IF node.high_pc = None THEN 0
                   ELSE IF node.high_pc[1].form \in {"Addr", "Udata"}
                   THEN node.high_pc[1].value
                   ELSE 0
        by_pc == node.low_pc # None /\ low_pc <= program_counter /\ program_counter < high_pc
        listed == node.ranges # None /\ node.ranges[1].form = "RangeListsRef"
    IN  [overflow |-> FALSE,
         invalid |-> node.low_pc # None /\ (low_pc = U64Max \/ high_pc = 0),
         unexpected |-> ~by_pc /\ node.ranges # None /\ ~listed,
         in_scope |-> \/ by_pc
                      \/ /\ listed
                         /\ \E k \in DOMAIN node.ranges[1].value :
                               /\ node.ranges[1].value[k].begin <= program_counter
                               /\ program_counter < node.ranges[1].value[k].end]

\* The scope of a DW_TAG_lexical_block: whether the program counter is in
\* [low_pc, high_pc), where a DW_AT_high_pc of form udata is a length, or in
\* a range of DW_AT_ranges, which is looked at only if the first test
\* failed; whether the attributes are reported as invalid or unexpected;
\* whether low_pc + length overflows 64 bits.
lexical_block_scope(node, program_counter) ==
    LET low_pc == IF node.low_pc # None /\ node.low_pc[1].form = "Addr"
                  THEN node.low_pc[1].value ELSE U64Max
        length == IF node.high_pc # None /\ node.high_pc[1].form = "Udata"
                  THEN node.high_pc[1].value ELSE 0
        high_pc == IF node.high_pc = None THEN 0
                   ELSE IF node.high_pc[1].form = "Addr" THEN node.high_pc[1].value
                   ELSE IF node.high_pc[1].form = "Udata" THEN (low_pc + length) % U64
                   ELSE 0
        by_pc == node.low_pc # None /\ low_pc <= program_counter /\ program_counter < high_pc
        listed == node.ranges # None /\ node.ranges[1].form = "RangeListsRef"
    IN  [overflow |-> node.low_pc # None /\ low_pc + length >= U64,
         invalid |-> node.low_pc # None /\ (low_pc = U64Max \/ high_pc = 0),
         unexpected |-> ~by_pc /\ node.ranges # None /\ ~listed,
         in_scope |-> \/ by_pc
                      \/ /\ listed
                         /\ \E k \in DOMAIN node.ranges[1].value :
                               /\ node.ranges[1].value[k].begin <= program_counter
                               /\ program_counter < node.ranges[1].value[k].end]

\* The children of a variable without a type name are handed to the
\* variable above it.
RECURSIVE pass_children_up(_, _, _)
pass_children_up(parent_variable, grand_children, k) ==
    IF k > Len(grand_children) THEN parent_variable
    ELSE pass_children_up(add_child_variable(parent_variable, grand_children[k]),
                          grand_children, k + 1)

past_the_intermediate(parent_variable, child_variable) ==
    IF child_variable.type_name = "" /\ child_variable.children # None
    THEN pass_children_up(parent_variable, child_variable.children[1], 1)
    ELSE parent_variable

RECURSIVE process_tree(_, _, _, _, _, _)
RECURSIVE namespace_children(_, _, _, _, _, _)
RECURSIVE process_tree_node_attributes(_, _, _, _, _, _)
RECURSIVE extract_type(_, _, _, _, _)
RECURSIVE array_members(_, _, _, _, _, _, _)

\* The DW_AT_discr arm of process_tree_node_attributes: the variable of
\* the discriminant entry with its value extracted.
discriminant_variable(tree_node, parent_variable, overflow_checks, program_counter, stack) ==
    LET valued(attributes) ==
            IF attributes.kind # "Ok" THEN attributes
            ELSE Done(extract_value(attributes.var))
    IN  valued(process_tree_node_attributes(entries_tree(tree_node.discr[1].value),
                                            parent_variable, NewVariable,
                                            overflow_checks, program_counter, stack))

\* The role process_tree_node_attributes leaves in the parent variable:
\* VariantPart of the parsed value of the discriminant if the entry has a
\* DW_AT_discr of form ref, else the role the parent had.
discriminant_role(tree_node, parent_variable, overflow_checks, program_counter, stack) ==
    LET role(discriminant) ==
            IF discriminant.kind # "Ok" THEN parent_variable.role
            ELSE VariantPart(parse_or_max(get_value(discriminant.var)))
    IN  IF tree_node.discr = None \/ tree_node.discr[1].form # "UnitRef"
        THEN parent_variable.role
        ELSE role(discriminant_variable(tree_node, parent_variable,
                                        overflow_checks, program_counter, stack))

\* UnitInfo::process_tree_node_attributes: the location first, then the
\* attributes DW_AT_name, DW_AT_type, DW_AT_const_value and DW_AT_discr in
\* this order.
process_tree_node_attributes(tree_node, parent_variable, child_variable, overflow_checks, program_counter, stack) ==
    LET inherit(located) ==
            [located EXCEPT
                !.memory_location = IF @ = 0 THEN parent_variable.memory_location ELSE @,
                !.member_index = IF parent_variable.member_index # None
                                 THEN parent_variable.member_index ELSE @,
                !.name = IF tree_node.name # None THEN tree_node.name[1] ELSE @]
        type_attribute(named) ==
            IF tree_node.type = None THEN Done(named)
            ELSE IF tree_node.type[1].form = "UnitRef"
            THEN extract_type(entries_tree(tree_node.type[1].value), named,
                              overflow_checks, program_counter, stack)
            ELSE Done(set_value(named, "UNIMPLEMENTED: Attribute Value for DW_AT_type"))
        const_value_attribute(typed) ==
            IF typed.kind # "Ok" \/ tree_node.const_value = None THEN typed
            ELSE IF tree_node.const_value[1].form = "Udata"
            THEN Done(set_value(typed.var, ToString(tree_node.const_value[1].value)))
            ELSE Done(set_value(typed.var,
                                "UNIMPLEMENTED: Attribute Value for DW_AT_const_value"))
        failure_of(discriminant, valued) ==
            IF discriminant.kind # "Ok"
            THEN [kind |-> discriminant.kind, err |-> discriminant.err, var |-> valued.var]
            ELSE valued
        discr_attribute(valued) ==
            IF valued.kind # "Ok" \/ tree_node.discr = None THEN valued
            ELSE IF tree_node.discr[1].form = "UnitRef"
            THEN failure_of(discriminant_variable(tree_node, parent_variable,
                                                  overflow_checks, program_counter, stack),
                            valued)
            ELSE Done(set_value(valued.var, "UNIMPLEMENTED: Attribute Value for DW_AT_discr"))
    IN  discr_attribute(
            const_value_attribute(
                type_attribute(
                    inherit(extract_location(tree_node, parent_variable, child_variable)))))

\* The loop of the DW_TAG_array_type arm over the indices from
\* array_member_index up to the upper bound.
array_members(member_type, child_variable, array_member_index, upper_bound, overflow_checks, program_counter, stack) ==
    LET add(array_variable, typed) ==
            IF typed.kind # "Ok" THEN typed
            ELSE array_members(member_type,
                               add_child_variable(array_variable,
                                                  [typed.var EXCEPT !.inclusion = "Include"]),
                               array_member_index + 1, upper_bound, overflow_checks, program_counter, stack)
        member(attributes) ==
            IF attributes.kind # "Ok" THEN attributes
            ELSE add([child_variable EXCEPT !.type_name =
                         "[" \o attributes.var.name \o ";" \o ToString(upper_bound) \o "]"],
                     extract_type(member_type,
                                  [attributes.var EXCEPT
                                      !.member_index = Some(array_member_index),
                                      !.name = "__" \o ToString(array_member_index),
                                      !.kind = "Indexed"],
                                  overflow_checks, program_counter, stack))
    IN  IF array_member_index >= upper_bound THEN Done(child_variable)
        ELSE member(process_tree_node_attributes(member_type, child_variable, NewVariable,
                                                 overflow_checks, program_counter, stack))

\* UnitInfo::extract_type.  Each call it makes takes a frame of the stack
\* of the thread; with no room left the thread ends in a stack overflow.
extract_type(node, variable, overflow_checks, program_counter, stack) ==
    LET child_variable == [variable EXCEPT !.type_name = TypeName(node),
                                           !.byte_size = node.byte_size]
        refer(referenced) ==
            IF referenced.kind # "Ok" THEN referenced
            ELSE IF referenced.var.type_name # "()"
            THEN Done(add_child_variable(child_variable,
                         [referenced.var EXCEPT !.kind = "Referenced",
                                                !.inclusion = "Include"]))
            ELSE Done(child_variable)
        dereference(buff) ==
            IF buff = None THEN Failed("core.read", child_variable)
            ELSE refer(extract_type(entries_tree(node.type[1].value),
                                    [NewVariable EXCEPT
                                        !.name = IF node.name = None THEN ""
                                                 ELSE node.name[1],
                                        !.memory_location = buff[1]],
                                    overflow_checks, program_counter, stack - 1))
        structure(members) ==
            IF members.kind = "Ok" /\ members.var.children = None
            THEN Done(set_value(members.var, members.var.type_name))
            ELSE members
        variant(enumeration, buff) ==
            IF buff = None THEN Failed("core.read", enumeration)
            ELSE Done([enumeration EXCEPT
                          !.value = enumeration.type_name \o "::"
                                    \o find_enumerator(
                                           IF enumeration.children = None THEN <<>>
                                           ELSE enumeration.children[1],
                                           1, ToString(buff[1])),
                          !.children = None])
        enumeration(enumerators) ==
            IF enumerators.kind # "Ok" THEN enumerators
            ELSE variant(enumerators.var, read_u8(enumerators.var.memory_location))
    IN  IF stack = 0 THEN Panicked(variable)
        ELSE IF node.tag = "base_type"
        THEN IF child_variable.member_index # None
             THEN member_location([child_variable EXCEPT !.children = None], overflow_checks)
             ELSE Done([child_variable EXCEPT !.children = None])
        ELSE IF node.tag \in {"pointer_type", "array_type"} /\ node.type = None
        THEN Done(set_value(child_variable, "ERROR: No Attribute Value for DW_AT_type"))
        ELSE IF node.tag \in {"pointer_type", "array_type"} /\ node.type[1].form # "UnitRef"
        THEN Done(set_value(child_variable, "UNIMPLEMENTED: Attribute Value for DW_AT_type"))
        ELSE IF node.tag = "pointer_type"
        THEN dereference(read_u32(child_variable.memory_location))
        ELSE IF node.tag = "structure_type"
        THEN structure(IF child_variable.memory_location # U64Max
                       THEN process_tree(node.children, 1, child_variable, overflow_checks, program_counter, stack - 1)
                       ELSE Done(child_variable))
        ELSE IF node.tag = "enumeration_type"
        THEN enumeration(process_tree(node.children, 1, child_variable, overflow_checks, program_counter, stack - 1))
        ELSE IF node.tag = "array_type"
        THEN array_members(entries_tree(node.type[1].value), child_variable, node.lower_bound,
                           node.upper_bound, overflow_checks, program_counter, stack - 1)
        ELSE Done([child_variable EXCEPT !.type_name = "<UNIMPLEMENTED: type>",
                                         !.value = "<UNIMPLEMENTED: type>",
                                         !.children = None])

\* The children of a DW_TAG_namespace from child i on: its variables, and
\* its namespaces under the name of this namespace and their own.
namespace_children(children, i, namespace_variable, overflow_checks, program_counter, stack) ==
    LET add(processed) ==
            IF processed.kind # "Ok" THEN processed
            ELSE namespace_children(children, i + 1,
                    add_child_variable(namespace_variable,
                                       [processed.var EXCEPT !.inclusion = "Include"]),
                    overflow_checks, program_counter, stack)
    IN  IF i > Len(children) THEN Done(namespace_variable)
        ELSE IF children[i].tag = "variable"
        THEN add(process_tree_node_attributes(children[i], namespace_variable,
                                              NewVariable, overflow_checks, program_counter, stack))
        ELSE IF children[i].tag = "namespace"
        THEN add(process_tree(children[i].children, 1,
                              [NewVariable EXCEPT
                                  !.name = IF children[i].name # None
                                           THEN namespace_variable.name \o "::"
                                                \o children[i].name[1]
                                           ELSE "<anonymous namespace>",
                                  !.type_name = "namespace"],
                              overflow_checks, program_counter, stack))
        ELSE namespace_children(children, i + 1, namespace_variable, overflow_checks, program_counter, stack)

\* UnitInfo::process_tree over the children of a node from child i on.
\* The entries of a lexical block in scope, of a formal parameter and of an
\* inlined subroutine are processed for the parent variable itself; what a
\* variant part or a selected variant collected is handed up to the parent.
process_tree(children, i, parent_variable, overflow_checks, program_counter, stack) ==
    LET add(processed) ==
            IF processed.kind # "Ok" THEN processed
            ELSE process_tree(children, i + 1,
                              add_child_variable(parent_variable,
                                 [processed.var EXCEPT !.inclusion = "Include"]),
                              overflow_checks, program_counter, stack)
        descend(attributes) ==
            IF attributes.kind # "Ok" THEN attributes
            ELSE add(process_tree(children[i].children, 1, attributes.var,
                                  overflow_checks, program_counter, stack))
        continue(processed) ==
            IF processed.kind # "Ok" THEN processed
            ELSE process_tree(children, i + 1, processed.var,
                              overflow_checks, program_counter, stack)
        pass_up(parent, processed) ==
            IF processed.kind # "Ok" THEN processed
            ELSE process_tree(children, i + 1, past_the_intermediate(parent, processed.var),
                              overflow_checks, program_counter, stack)
        variant_part(parent, attributes) ==
            IF attributes.kind # "Ok" THEN attributes
            ELSE pass_up(parent,
                         process_tree(children[i].children, 1,
                                      [attributes.var EXCEPT !.role = parent.role],
                                      overflow_checks, program_counter, stack))
        variant(attributes) ==
            IF attributes.kind # "Ok" THEN attributes
            ELSE IF /\ attributes.var.role.kind = "Variant"
                    /\ parent_variable.role = VariantPart(attributes.var.role.discriminant)
            THEN pass_up(parent_variable,
                         process_tree(children[i].children, 1, attributes.var,
                                      overflow_checks, program_counter, stack))
            ELSE process_tree(children, i + 1, parent_variable,
                              overflow_checks, program_counter, stack)
        lexical_block(scope) ==
            IF scope.overflow /\ overflow_checks THEN Panicked(parent_variable)
            ELSE IF scope.in_scope
            THEN continue(process_tree(children[i].children, 1,
                                       IF scope.invalid
                                       THEN set_value(parent_variable,
                                                "ERROR: invalid/unsupported scope information")
                                       ELSE parent_variable,
                                       overflow_checks, program_counter, stack))
            ELSE process_tree(children, i + 1,
                              IF scope.unexpected
                              THEN set_value(parent_variable, "Found unexpected scope attribute")
                              ELSE IF scope.invalid
                              THEN set_value(parent_variable,
                                             "ERROR: invalid/unsupported scope information")
                              ELSE parent_variable,
                              overflow_checks, program_counter, stack)
    IN  IF i > Len(children) THEN Done(parent_variable)
        ELSE IF children[i].tag = "namespace"
        THEN add(namespace_children(children[i].children, 1,
                                    [NewVariable EXCEPT
                                        !.name = IF children[i].name # None
                                                 THEN children[i].name[1]
                                                 ELSE "<anonymous namespace>",
                                        !.type_name = "namespace"],
                                    overflow_checks, program_counter, stack))
        ELSE IF children[i].tag \in {"variable", "member", "enumerator"}
        THEN descend(process_tree_node_attributes(children[i], parent_variable,
                                                  NewVariable, overflow_checks, program_counter, stack))
        ELSE IF children[i].tag = "variant_part"
        THEN variant_part([parent_variable EXCEPT !.role =
                              discriminant_role(children[i],
                                                [parent_variable EXCEPT !.role = VariantPart(0)],
                                                overflow_checks, program_counter, stack)],
                          process_tree_node_attributes(
                              children[i], [parent_variable EXCEPT !.role = VariantPart(0)],
                              NewVariable, overflow_checks, program_counter, stack))
        ELSE IF children[i].tag = "variant"
        THEN variant(process_tree_node_attributes(
                         children[i], parent_variable,
                         extract_variant_discriminant(children[i], NewVariable),
                         overflow_checks, program_counter, stack))
        ELSE IF children[i].tag \in {"formal_parameter", "inlined_subroutine"}
        THEN continue(process_tree(children[i].children, 1, parent_variable,
                                   overflow_checks, program_counter, stack))
        ELSE IF children[i].tag = "lexical_block"
        THEN lexical_block(lexical_block_scope(children[i], program_counter))
        ELSE process_tree(children, i + 1, parent_variable, overflow_checks, program_counter, stack)

\* The call did not return.
Panic == [kind |-> "Panic", err |-> "", val |-> <<>>]

\* The children of a root variable as the result of a query.
RootChildren(processed) ==
    IF processed.kind = "Err" THEN Err(processed.err)
    ELSE IF processed.kind = "Panic" THEN Panic
    ELSE IF processed.var.children = None THEN Ok(<<>>)
    ELSE Ok(processed.var.children[1])

\* UnitInfo::get_function_variables.
get_function_variables(function_die, overflow_checks, program_counter, stack) ==
    RootChildren(process_tree(function_die.children, 1,
                              [NewVariable EXCEPT !.name = "<locals>"], overflow_checks, program_counter, stack))

\* The loop of get_stack_statics over the units from unit i on.
RECURSIVE statics_of_units(_, _, _, _, _, _)
statics_of_units(us, i, static_root_variable, overflow_checks, program_counter, stack) ==
    IF i > Len(us) THEN Done(static_root_variable)
    ELSE LET processed == process_tree(us[i].children, 1, static_root_variable,
                                       overflow_checks, program_counter, stack)
         IN  IF processed.kind # "Ok" THEN processed
             ELSE statics_of_units(us, i + 1, processed.var, overflow_checks, program_counter, stack)

\* DebugInfo::get_stack_statics.
get_stack_statics(us, overflow_checks, program_counter, stack) ==
    RootChildren(statics_of_units(us, 1, [NewVariable EXCEPT !.name = "<statics>"],
                                  overflow_checks, program_counter, stack))

\* Type entries of the sample program.
BaseType(name, size) == [Die("base_type", Some(name)) EXCEPT !.byte_size = size]

PointerType(form, pointee) ==
    [Die("pointer_type", Some("&u32")) EXCEPT !.byte_size = 4,
                                              !.type = Attr(form, pointee)]

\* enum E { A = 0, B = 1 } of one byte; the value of B in the given form.
EnumType(form) ==
    [Die("enumeration_type", Some("E")) EXCEPT
        !.byte_size = 1,
        !.children =
            <<[Die("enumerator", Some("A")) EXCEPT !.const_value = Attr("Udata", 0)],
              [Die("enumerator", Some("B")) EXCEPT !.const_value = Attr(form, 1)]>>]

Member(name, offset, type) ==
    [Die("member", Some(name)) EXCEPT !.location = Attr("Udata", offset),
                                      !.type = Attr("UnitRef", type)]

\* struct S { f: u8, g: u8 }.
StructType ==
    [Die("structure_type", Some("S")) EXCEPT
        !.byte_size = 2,
        !.children = <<Member("f", 0, BaseType("u8", 1)),
                       Member("g", 1, BaseType("u8", 1))>>]

ArrayType(element, upper) ==
    [Die("array_type", None) EXCEPT !.type = Attr("UnitRef", element),
                                    !.upper_bound = upper]

VariableDie(name, location, type) ==
    [Die("variable", Some(name)) EXCEPT !.location = location, !.type = type]

\* The variables a function of the sample program may declare: a word, a
\* pointer, an enumeration, arrays of words, of structures and of elements
\* so large or so high in memory that an element's address leaves 64 bits,
\* and variables whose location, type reference or type the resolver does
\* not support.
LocalDies ==
    {VariableDie("x", Attr("Exprloc", 32), Attr("UnitRef", BaseType("u32", 4))),
     VariableDie("p", Attr("Exprloc", 36),
                 Attr("UnitRef", PointerType("UnitRef", BaseType("u32", 4)))),
     VariableDie("q", Attr("Exprloc", 36),
                 Attr("UnitRef", PointerType("DebugInfoRef", BaseType("u32", 4)))),
     VariableDie("e", Attr("Exprloc", 40), Attr("UnitRef", EnumType("Udata"))),
     VariableDie("s", Attr("Exprloc", 40), Attr("UnitRef", EnumType("Sdata"))),
     VariableDie("a", Attr("Exprloc", 48),
                 Attr("UnitRef", ArrayType(BaseType("u16", 2), 3))),
     VariableDie("t", Attr("Exprloc", 48), Attr("UnitRef", ArrayType(StructType, 2))),
     VariableDie("big", Attr("Exprloc", 48),
                 Attr("UnitRef", ArrayType(BaseType("Huge", U64 \div 2), 3))),
     VariableDie("high", Attr("Exprloc", U64 - 2),
                 Attr("UnitRef", ArrayType(BaseType("u16", 2), 3))),
     VariableDie("l", Attr("Data", 32), Attr("UnitRef", BaseType("u32", 4))),
     VariableDie("r", Attr("Exprloc", 32), Attr("DebugInfoRef", BaseType("u32", 4))),
     VariableDie("w", Attr("ExprlocError", 0), Attr("UnitRef", BaseType("u32", 4))),
     VariableDie("u", Attr("Exprloc", 32), Attr("UnitRef", Die("reference_type", None)))}

FunctionDie(variables) == [Die("subprogram", Some("main")) EXCEPT !.children = variables]

Namespace(name, children) == [Die("namespace", name) EXCEPT !.children = children]

Static(name) ==
    VariableDie(name, Attr("Exprloc", 32), Attr("UnitRef", BaseType("u32", 4)))

\* The statics of the sample program: mod m { static COUNTER }, namespaces
\* three deep with statics at each depth, a static outside every
\* namespace, an anonymous namespace.
StaticsSample ==
    {<<Namespace(Some("m"), <<Static("COUNTER")>>)>>,
     <<Namespace(Some("a"),
                 <<Static("V"),
                   Namespace(Some("b"),
                             <<Static("Y"),
                               Namespace(Some("c"), <<Static("X")>>)>>)>>)>>,
     <<Static("Z")>>,
     <<Namespace(None, <<Static("W")>>)>>,
     <<Namespace(Some("a"), <<Namespace(Some("b"), <<>>)>>),
       Namespace(Some("m"), <<Static("COUNTER")>>)>>}

\* A compilation unit as the resolver sees it: the entries under its root.
DieUnit(children) == [ranges |-> <<>>, line_program |-> None, children |-> children]

\* Target memory: the pointer at 36 and the enumeration byte at 40, each
\* readable or not.
TargetMemories ==
    {[a \in D |-> IF a = 36 THEN 64 ELSE b] : D \in SUBSET {36, 40}, b \in 0 .. 2}

\* The nested calls of extract_type the stack of the debugger's thread has
\* room for.
StackFrames == 8

\* The program counters of the frames the variables are resolved for: the
\* start of foo and the two instructions after it.
ProgramCounters == {PcFoo, PcFoo + 4, PcFoo + 8}

GetFunctionVariables ==
    /\ \E overflow_checks \in BOOLEAN, program_counter \in ProgramCounters :
          query' = [op |-> "get_function_variables",
                    arg |-> [overflow_checks |-> overflow_checks,
                             program_counter |-> program_counter],
                    ret |-> get_function_variables(units[1].children[1], overflow_checks,
                                                   program_counter, StackFrames)]
    /\ UNCHANGED <<units, apVars, uwVars>>

GetStackStatics ==
    /\ \E overflow_checks \in BOOLEAN, program_counter \in ProgramCounters :
          query' = [op |-> "get_stack_statics",
                    arg |-> [overflow_checks |-> overflow_checks,
                             program_counter |-> program_counter],
                    ret |-> get_stack_statics(units, overflow_checks,
                                              program_counter, StackFrames)]
    /\ UNCHANGED <<units, apVars, uwVars>>

\* The unit of the sample program: a function of two variables, and the
\* statics.
VarInit ==
    /\ \E first \in LocalDies, second \in LocalDies, statics \in StaticsSample :
          units = <<DieUnit(<<FunctionDie(<<first, second>>)>> \o statics)>>
    /\ query = NoQuery

VarNext ==
    \/ GetFunctionVariables
    \/ GetStackStatics

\* A lexical block with one variable of its own and the blocks inside it.
Block(low_pc, high_pc, ranges, name, inner) ==
    [Die("lexical_block", None) EXCEPT
        !.low_pc = low_pc, !.high_pc = high_pc, !.ranges = ranges,
        !.children = <<VariableDie(name, Attr("Exprloc", 32),
                                   Attr("UnitRef", BaseType("u32", 4)))>> \o inner]

\* Dwarf::die_ranges: the ranges of DW_AT_ranges, or the one range of
\* DW_AT_low_pc and DW_AT_high_pc.
die_ranges(die) ==
    IF die.ranges # None THEN die.ranges[1].value
    ELSE IF die.low_pc # None /\ die.high_pc # None
    THEN <<Range(die.low_pc[1].value,
                 IF die.high_pc[1].form = "Udata"
                 THEN die.low_pc[1].value + die.high_pc[1].value
                 ELSE die.high_pc[1].value)>>
    ELSE <<>>

\* (ranges.begin <= address) && (address < ranges.end) for one of the ranges.
covers(die, address) ==
    \E k \in DOMAIN die_ranges(die) :
        die_ranges(die)[k].begin <= address /\ address < die_ranges(die)[k].end

\* The entries below a node in the order of next_dfs, each with its depth.
RECURSIVE next_dfs(_, _, _)
next_dfs(children, k, depth) ==
    IF k > Len(children) THEN <<>>
    ELSE <<[depth |-> depth, entry |-> children[k]]>>
             \o next_dfs(children[k].children, 1, depth + 1)
             \o next_dfs(children, k + 1, depth)

\* FunctionDie::new and FunctionDie::new_inlined.
FunctionDie_new(die) ==
    [function_die |-> die, is_inline |-> FALSE, abstract_die |-> None]

FunctionDie_new_inlined(concrete_die, abstract_die) ==
    [function_die |-> concrete_die, is_inline |-> TRUE, abstract_die |-> Some(abstract_die)]

\* FunctionDie::get_attribute: the attribute of the concrete instance, for
\* an inlined function else that of the abstract instance.
get_attribute(die, attribute_name) ==
    IF die.is_inline /\ die.function_die[attribute_name] = None
    THEN die.abstract_die[1][attribute_name]
    ELSE die.function_die[attribute_name]

\* UnitInfo::find_inlined_function from entry j on, for the subprogram at
\* offset: the first inlined subroutine in the order of next_dfs whose
\* ranges cover the address, until the depth falls below that of the
\* subprogram.
RECURSIVE find_inlined_function(_, _, _, _)
find_inlined_function(entries, j, offset, address) ==
    IF j > Len(entries) \/ entries[j].depth - entries[offset].depth < 0 THEN Ok(None)
    ELSE IF entries[j].entry.tag = "inlined_subroutine" /\ covers(entries[j].entry, address)
    THEN IF entries[j].entry.abstract_origin = None THEN Ok(None)
         ELSE IF entries[j].entry.abstract_origin[1].form = "UnitRef"
         THEN Ok(Some(FunctionDie_new_inlined(
                          entries[j].entry,
                          entries_tree(entries[j].entry.abstract_origin[1].value))))
         ELSE Panic
    ELSE find_inlined_function(entries, j + 1, offset, address)

\* UnitInfo::get_function_die over the entries of a unit from entry j on.
RECURSIVE unit_get_function_die(_, _, _, _)
unit_get_function_die(entries, j, address, find_inlined) ==
    LET or_else(inlined) ==
            IF inlined.kind = "Ok" /\ inlined.val = None
            THEN Ok(Some(FunctionDie_new(entries[j].entry)))
            ELSE inlined
    IN  IF j > Len(entries) THEN Ok(None)
        ELSE IF entries[j].entry.tag = "subprogram" /\ covers(entries[j].entry, address)
        THEN IF find_inlined
             THEN or_else(find_inlined_function(entries, j, j, address))
             ELSE Ok(Some(FunctionDie_new(entries[j].entry)))
        ELSE unit_get_function_die(entries, j + 1, address, find_inlined)

\* The loop of next() over the units from unit i on: the function of the
\* first unit that knows the address, whether it is inlined, its name and
\* the line of its call site.
RECURSIVE function_at(_, _, _)
function_at(us, i, address) ==
    LET found(die) ==
            IF die.kind = "Panic" THEN Panic
            ELSE IF die.val = None THEN function_at(us, i + 1, address)
            ELSE Ok([is_inline |-> die.val[1].is_inline,
                     function_name |-> get_attribute(die.val[1], "name"),
                     call_line |-> IF die.val[1].is_inline
                                   THEN get_attribute(die.val[1], "call_line")
                                   ELSE None])
    IN  IF i > Len(us) THEN Ok(None)
        ELSE found(unit_get_function_die(next_dfs(us[i].children, 1, 0), 1, address, TRUE))

\* The addresses a function is looked up for: the three instructions of
\* foo, main, and an address of no function.
FunctionAddresses == ProgramCounters \cup {PcMain, PcMain + 8}

GetFunctionDie ==
    /\ \E address \in FunctionAddresses, find_inlined \in BOOLEAN :
          query' = [op |-> "get_function_die",
                    arg |-> [address |-> address, find_inlined |-> find_inlined],
                    ret |-> unit_get_function_die(next_dfs(units[1].children, 1, 0), 1,
                                                  address, find_inlined)]
    /\ UNCHANGED <<units, apVars, uwVars>>

InlineDetection ==
    /\ \E address \in FunctionAddresses :
          query' = [op |-> "inline_detection",
                    arg |-> [address |-> address],
                    ret |-> function_at(units, 1, address)]
    /\ UNCHANGED <<units, apVars, uwVars>>

\* A function inlined at call_line into the instructions from low_pc on,
\* with the functions inlined into it.
Inlined(name, low_pc, length, call_line, origin_form, inner) ==
    [Die("inlined_subroutine", None) EXCEPT
        !.low_pc = Attr("Addr", low_pc), !.high_pc = Attr("Udata", length),
        !.call_line = Attr("Udata", call_line),
        !.abstract_origin = IF origin_form = "" THEN None
                            ELSE Attr(origin_form, Die("subprogram", Some(name))),
        !.children = inner]

Subprogram(name, low_pc, length, children) ==
    [Die("subprogram", Some(name)) EXCEPT
        !.low_pc = Attr("Addr", low_pc), !.high_pc = Attr("Udata", length),
        !.children = children]

\* What is inlined into the function a, inlined into foo at line 10: nothing,
\* b at line 20, c at line 30 into b, b inside a lexical block.
NestedSample ==
    {<<>>,
     <<Inlined("b", PcFoo + 4, 4, 20, "UnitRef", <<>>)>>,
     <<Inlined("b", PcFoo + 4, 4, 20, "UnitRef",
               <<Inlined("c", PcFoo + 4, 4, 30, "UnitRef", <<>>)>>)>>,
     <<Block(Attr("Addr", PcFoo + 4), Attr("Udata", 4), None, "x",
             <<Inlined("b", PcFoo + 4, 4, 20, "UnitRef", <<>>)>>)>>}

\* The unit of foo and main: a is inlined into the first two instructions
\* of foo, with its abstract origin in a form that is read, in one that is
\* not, or missing; d may be inlined into the third.
InlineInit ==
    /\ \E origin_form \in {"UnitRef", "DebugInfoRef", ""}, inner \in NestedSample,
          tail \in {<<>>, <<Inlined("d", PcFoo + 8, 4, 40, "UnitRef", <<>>)>>} :
          units = <<DieUnit(<<Subprogram("foo", PcFoo, 12,
                                         <<Inlined("a", PcFoo, 8, 10, origin_form, inner)>>
                                             \o tail),
                              Subprogram("main", PcMain, 8, <<>>)>>)>>
    /\ query = NoQuery

InlineNext ==
    \/ GetFunctionDie
    \/ InlineDetection

\* The lexical blocks of foo: scopes given by an address and a length, by
\* two addresses, by a range list, by both, one block inside another, and
\* scope attributes of forms the resolver does not read.
BlockSample ==
    {Block(Attr("Addr", PcFoo), Attr("Udata", 8), None, "b", <<>>),
     Block(Attr("Addr", PcFoo + 4), Attr("Addr", PcFoo + 8), None, "c", <<>>),
     Block(None, None,
           Attr("RangeListsRef", <<Range(PcFoo, PcFoo + 4), Range(PcFoo + 8, PcFoo + 12)>>),
           "d", <<>>),
     Block(Attr("Addr", PcFoo), Attr("Udata", 4),
           Attr("RangeListsRef", <<Range(PcFoo + 8, PcFoo + 12)>>), "e", <<>>),
     Block(Attr("Addr", PcFoo), Attr("Udata", 8), None, "f",
           <<Block(Attr("Addr", PcFoo + 4), Attr("Udata", 4), None, "g", <<>>)>>),
     Block(Attr("Addr", PcFoo + 4), Attr("Udata", 8), None, "h",
           <<Block(Attr("Addr", PcFoo), Attr("Udata", 8), None, "i", <<>>)>>),
     Block(Attr("Addr", PcFoo), None, None, "j", <<>>),
     Block(Attr("Udata", PcFoo), Attr("Udata", 8), None, "k", <<>>),
     Block(None, None, Attr("SecOffset", <<Range(PcFoo, PcFoo + 12)>>), "l", <<>>)}

\* The discriminant of the tagged union at 40: an artificial member of one
\* byte at offset 0.
DiscriminantMember == Member("<discr>", 0, BaseType("u8", 1))

\* A variant with its DW_AT_discr_value and one field at offset 4.
VariantDie(discr_value, field) ==
    [Die("variant", None) EXCEPT !.discr_value = discr_value,
                                 !.children = <<Member(field, 4, BaseType("u32", 4))>>]

\* A variable at 40 whose type is a structure with a variant part.
TaggedUnion(name, discr, variants) ==
    VariableDie(name, Attr("Exprloc", 40),
        Attr("UnitRef",
             [Die("structure_type", Some("Option")) EXCEPT
                 !.byte_size = 8,
                 !.children = <<[Die("variant_part", None) EXCEPT
                                    !.discr = discr,
                                    !.children = <<DiscriminantMember>> \o variants]>>]))

\* The variants of the sample unions: two explicit values, a default
\* variant beside an explicit 1 and beside an explicit 0, and values in a
\* form other than DW_FORM_data1 or that cannot be read from the entry.
VariantSample ==
    {<<VariantDie(Attr("Data1", 0), "A"), VariantDie(Attr("Data1", 1), "B")>>,
     <<VariantDie(None, "D"), VariantDie(Attr("Data1", 1), "B")>>,
     <<VariantDie(None, "D"), VariantDie(Attr("Data1", 0), "A")>>,
     <<VariantDie(Attr("Data2", 1), "W"), VariantDie(Attr("Data1", 0), "A")>>,
     <<VariantDie(Attr("Malformed", 1), "M"), VariantDie(Attr("Data1", 1), "B")>>}

UnionSample ==
    {TaggedUnion("o", discr, variants) :
        discr \in {Attr("UnitRef", DiscriminantMember), None,
                   Attr("DebugInfoRef", DiscriminantMember)},
        variants \in VariantSample}

\* n: &Node at 36, where struct Node { value: u8, next: &Node }.
ListSample ==
    {VariableDie("n", Attr("Exprloc", 36),
                 Attr("UnitRef",
                      [Die("pointer_type", Some("&Node")) EXCEPT
                          !.byte_size = 4,
                          !.type = Attr("UnitRef", Die("offset", Some("Node")))]))}

\* Target memory: the pointer n at 36 to the node at 64, whose next pointer
\* at 68 leads back to 64, or on to 72, or cannot be read; the discriminant
\* byte at 40, which holds 0, 1 or 2 or cannot be read.
TreeMemory(D, link, b) ==
    [a \in D |-> IF a = 36 THEN 64 ELSE IF a = 68 THEN link ELSE b]

TreeMemories ==
    {TreeMemory({36, 40, 64, 68}, 64, b) : b \in 0 .. 2}
        \cup {TreeMemory({36, 64, 68}, 64, 0), TreeMemory({36, 40, 64}, 64, 0),
              TreeMemory({36, 40, 64, 68}, 72, 0)}

\* The unit of a function foo of two entries: lexical blocks, tagged
\* unions, a linked list.
TreeInit ==
    /\ \E first \in BlockSample \cup UnionSample \cup ListSample,
          second \in BlockSample \cup UnionSample \cup ListSample :
          units = <<DieUnit(<<FunctionDie(<<first, second>>)>>)>>
    /\ query = NoQuery

\* ------------------------------------------------------------------------
\* Memory access port: specifications
\* ------------------------------------------------------------------------

NoCall == [op |-> "none", arg |-> 0, pre |-> [tar |-> tar, tar2 |-> tar2],
           prev |-> NoPrev, log |-> <<>>, ret |-> Ok(0)]

\* Target addressing.  An access port of any variant, with or without the
\* large-address extension, has been constructed; TAR and TAR2 hold whatever
\* an earlier session left.
TarInit ==
    /\ ap \in [variant : MemoryApVariants, lae : BOOLEAN]
    /\ tar \in WordSample
    /\ tar2 \in WordSample
    /\ call = NoCall

TarNext ==
    \/ SetTargetAddress

\* Construction, base address, data transfer and status.  No access port
\* has been constructed yet.
ApInit ==
    /\ ap = NoAp
    /\ tar = 0
    /\ tar2 = 0
    /\ call = NoCall

ApNext ==
    \/ New
    \/ BaseAddress
    \/ ReadData
    \/ WriteData
    \/ Status
    \/ GenericStatus

\* The iterator of a session that unwinds nothing.
UnwindIdleWith(target_memory) ==
    /\ pc = None
    /\ registers = [architecture |-> "Arm", values |-> [i \in DwarfRegs |-> None]]
    /\ inlining_state = NoInlining
    /\ frame_count = 0
    /\ frame_section = [a \in CodeAddrs |-> NoUnwindInfo]
    /\ dwarf = [a \in CodeAddrs |-> NoDie]
    /\ memory = target_memory
    /\ yielded = None
    /\ before = [ret |-> None, in_inlined_function |-> FALSE, end |-> "new"]
    /\ step = Step(None, None, FALSE, "new")
    /\ visited = {}

UnwindIdle == UnwindIdleWith([a \in StackSlots |-> 0])

\* A session that makes no query of the debug information.
DebugIdle == units = <<>> /\ query = NoQuery

\* The access port of a session that only unwinds.
ApIdle ==
    /\ ap = NoAp
    /\ tar = 0
    /\ tar2 = 0
    /\ call = NoCall

vars == <<ap, tar, tar2, call, pc, registers, inlining_state, frame_count,
          frame_section, dwarf, memory, yielded, before, step, visited, units, query>>

\* Target addressing on a constructed access port.
Init == TarInit /\ UnwindIdle /\ DebugIdle

Spec == Init /\ [][TarNext]_vars

\* Construction, base address, data transfer and status of an access port.
ApSessionInit == ApInit /\ UnwindIdle /\ DebugIdle

ApSpec == ApSessionInit /\ [][ApNext]_vars

\* Unwinding the stack of a halted core.
UnwindSessionInit == UnwindInit /\ ApIdle /\ DebugIdle

UnwindSpec == UnwindSessionInit /\ [][UnwindNext]_vars

RollbackSessionInit == RollbackInit /\ ApIdle /\ DebugIdle

RollbackSpec == RollbackSessionInit /\ [][UnwindNext]_vars

\* Source locations and breakpoint locations from the line programs.
LineSessionInit == LineInit /\ ApIdle /\ UnwindIdle

LineSpec == LineSessionInit /\ [][LineNext]_vars

\* A session that resolves variables: the unwinder is idle, the target
\* memory is one of the sample memories.
VarSessionInit ==
    /\ VarInit
    /\ ApIdle
    /\ \E target_memory \in TargetMemories : UnwindIdleWith(target_memory)

VarSpec == VarSessionInit /\ [][VarNext]_vars

\* A session that resolves the variables of a function with lexical
\* blocks, tagged unions and linked data.
TreeSessionInit ==
    /\ TreeInit
    /\ ApIdle
    /\ \E target_memory \in TreeMemories : UnwindIdleWith(target_memory)

TreeSpec == TreeSessionInit /\ [][VarNext]_vars

\* A session that looks up the function of an address.
InlineSessionInit == InlineInit /\ ApIdle /\ UnwindIdle

InlineSpec == InlineSessionInit /\ [][InlineNext]_vars

\* ------------------------------------------------------------------------
\* Properties of the memory access port
\* ------------------------------------------------------------------------

IsSetTargetAddress == call.op = "set_target_address"

Upper(address) == (address \div U32) % U32

Lower(address) == address % U32

\* The positions of the accesses to register reg in the latest call.
AccessesTo(reg) == {i \in DOMAIN call.log : call.log[i].reg = reg}

\* C1: for an address whose upper 32 bits are non-zero, set_target_address
\* returns OutOfBounds if and only if the access port lacks the
\* large-address extension; and a call that returns OutOfBounds has written
\* no register: it issued no access and TAR and TAR2 are as before the call.
C1_OutOfBoundsIffNoLargeAddress ==
    IsSetTargetAddress =>
        /\ Upper(call.arg) # 0 =>
              ((call.ret = Err("OutOfBounds")) <=> ~has_large_address_extension(ap))
        /\ call.ret = Err("OutOfBounds") =>
              /\ call.log = <<>>
              /\ tar = call.pre.tar
              /\ tar2 = call.pre.tar2

C1_Witness ==
    /\ IsSetTargetAddress
    /\ Upper(call.arg) # 0
    /\ ~has_large_address_extension(ap)
    /\ call.ret = Err("OutOfBounds")
    /\ ap.variant = "AmbaApb2Apb3"

\* C2: in a set_target_address call on an access port with the
\* large-address extension the first access is the TAR2 write, a TAR write
\* comes only after a TAR2 write that completed, and when the TAR2 write
\* fails the call returns that error and has issued no TAR write.
C2_Tar2BeforeTar ==
    (IsSetTargetAddress /\ has_large_address_extension(ap)) =>
        /\ call.log # <<>>
        /\ call.log[1].reg = "TAR2"
        /\ \A i \in AccessesTo("TAR") :
              \E j \in AccessesTo("TAR2") : j < i /\ call.log[j].res = "ok"
        /\ call.log[1].res \in {"err", "err_landed"} =>
              /\ call.ret = Err("Transport")
              /\ AccessesTo("TAR") = {}
              /\ tar = call.pre.tar

C2_Witness ==
    /\ IsSetTargetAddress
    /\ has_large_address_extension(ap)
    /\ call.log[1].res = "err"
    /\ call.ret = Err("Transport")
    /\ Lower(call.arg) # call.pre.tar

\* C3: a set_target_address(addr) call that succeeds leaves TAR equal to
\* the low 32 bits of addr and, on an access port with the large-address
\* extension, TAR2 equal to the upper 32 bits of addr (zero included),
\* whatever the earlier calls left in the registers.
C3_SuccessSetsWholeAddress ==
    (IsSetTargetAddress /\ call.ret.kind = "Ok") =>
        /\ tar = Lower(call.arg)
        /\ has_large_address_extension(ap) => tar2 = Upper(call.arg)
        /\ ~has_large_address_extension(ap) => tar = call.arg

\* A successful call with a zero upper word, right after a call that was
\* cancelled between its TAR2 and its TAR write and left TAR2 non-zero.
C3_Witness ==
    /\ IsSetTargetAddress
    /\ call.ret.kind = "Ok"
    /\ has_large_address_extension(ap)
    /\ Upper(call.arg) = 0
    /\ call.pre.tar2 # 0
    /\ call.prev = [op |-> "set_target_address", kind |-> "Cancelled", accesses |-> 1]
    /\ tar2 = 0

\* C4: base_address returns BASE.BASEADDR << 12 for the legacy format,
\* without reading BASE2, and (BASE2.BASEADDR << 32) | (BASE.BASEADDR << 12)
\* for the ADIv5 format; the low 12 bits of the result are zero and the
\* result holds every bit of BASEADDR.
C4_BaseAddress ==
    call.op = "base_address" =>
        LET base_register == BASE(call.arg[1])
            base2 == BASE2(call.arg[2])
            page == 2 ^ PageBits
        IN  /\ AccessesTo("BASE2") # {} =>
                  /\ base_register.Format = "ADIv5"
                  /\ call.log[1].res = "ok"
            /\ Len(call.log) >= 1 /\ call.log[1].reg = "BASE"
            /\ call.ret.kind = "Ok" =>
                  /\ base_register.Format = "Legacy" =>
                        call.ret.val = base_register.BASEADDR * page
                  /\ base_register.Format = "ADIv5" =>
                        /\ call.ret.val =
                              BitOr(base2.BASEADDR * U32, base_register.BASEADDR * page)
                        /\ call.ret.val \div U32 = base2.BASEADDR
                  /\ call.ret.val % page = 0
                  /\ (call.ret.val % U32) \div page = base_register.BASEADDR

C4_Witness ==
    /\ call.op = "base_address"
    /\ call.ret.kind = "Ok"
    /\ BASE(call.arg[1]).Format = "ADIv5"
    /\ BASE(call.arg[1]).BASEADDR = (U32 \div (2 ^ PageBits)) - 1
    /\ BASE2(call.arg[2]).BASEADDR = U32 - 1
    /\ call.ret.val = (U32 - 1) * U32 + U32 - (2 ^ PageBits)

\* C5: read_data and write_data issue exactly one DRW access: a
\* non-repeated one for a slice of exactly one word, a repeated one for
\* every other length, the empty slice included; a read_data that succeeds
\* leaves in the slice the words DRW delivered, in order.
C5_OneDrwAccess ==
    call.op \in {"read_data", "write_data"} =>
        /\ Len(call.log) = 1
        /\ call.log[1].reg = "DRW"
        /\ call.log[1].acc = (IF call.op = "read_data" THEN "read" ELSE "write")
        /\ call.log[1].rep = (Len(call.arg.values) # 1)
        /\ (call.op = "read_data" /\ call.ret.kind = "Ok") =>
              call.ret.val = call.arg.data
        /\ call.op = "write_data" =>
              call.log[1].val = call.arg.values

C5_Witness ==
    /\ call.op = "read_data"
    /\ call.ret.kind = "Ok"
    /\ Len(call.arg.values) = MaxWords
    /\ call.log[1].rep
    /\ call.ret.val[1] = 1
    /\ call.ret.val[MaxWords] = U32 - 1

IsNew == call.op = "new"

IdrDelivers(type) ==
    /\ call.arg.read = "ok"
    /\ call.arg.parses
    /\ call.arg.TYPE = type

\* C6 as stated: a MemoryAp::new that runs to its end returns, for each of
\* the seven memory access port types in IDR.TYPE, the variant of the same
\* name.
C6_VariantForEveryMemoryType ==
    (IsNew /\ call.ret.kind # "Cancelled" /\ \E t \in MemoryApVariants : IdrDelivers(t)) =>
        /\ call.ret.kind = "Ok"
        /\ call.ret.val.variant = call.arg.TYPE

\* C6: MemoryAp::new performs one raw read of IDR; a failed read and an
\* unparsable IDR are returned as errors and JtagComAp as WrongApType, in
\* each case without calling a variant's constructor; for each of the seven
\* memory access port types it calls the constructor of the variant of the
\* same name and returns that variant if the constructor succeeds, and the
\* constructor's error otherwise.
C6_NewDispatch ==
    IsNew =>
        /\ AccessesTo("IDR") = {1}
        /\ call.log[1].acc = "raw_read"
        /\ call.arg.read = "err" => call.ret = Err("Transport") /\ Len(call.log) = 1
        /\ (call.arg.read = "ok" /\ ~call.arg.parses) =>
              call.ret.kind = "Err" /\ Len(call.log) = 1
        /\ IdrDelivers("JtagComAp") =>
              call.ret = Err("WrongApType") /\ Len(call.log) = 1
        /\ \A t \in MemoryApVariants : IdrDelivers(t) =>
              /\ Len(call.log) = 2
              /\ call.log[2].acc = "new" /\ call.log[2].reg = t
              /\ call.log[2].res = "ok" =>
                    /\ call.ret.kind = "Ok"
                    /\ call.ret.val.variant = t
                    /\ ap = call.ret.val
              /\ call.log[2].res = "err" => call.ret = Err("Transport")
        /\ call.ret.kind = "Ok" => call.ret.val.variant \in MemoryApVariants

C6_Witness ==
    /\ IsNew
    /\ IdrDelivers("AmbaAhb5Hprot")
    /\ call.ret.kind = "Ok"
    /\ ap.variant = "AmbaAhb5Hprot"

PhysicalFrame == yielded # None /\ ~step.in_inlined_function

\* C8: a frame yielded for a physical (non-inlined) step has as id the CFA
\* computed in that step from the CFI rule (register value plus offset) and
\* as pc the program counter at which the step ran.
C8_FrameIdIsCfa ==
    PhysicalFrame =>
        /\ yielded[1].id = step.cfa[1]
        /\ yielded[1].pc = step.pc[1]

\* C9: two frames yielded by consecutive calls of next(), the first for a
\* physical step, have different program counters; a physical step whose
\* link register points back at its own program counter leaves the iterator
\* without a program counter, and a call without a program counter yields
\* no frame.
C9_ProgramCounterChanges ==
    /\ (yielded # None /\ before.ret # None /\ ~before.in_inlined_function) =>
          yielded[1].pc # before.ret[1].pc
    /\ (step.end \in {"frame", "frame_error"} /\ ~step.in_inlined_function
          /\ get_program_counter(registers) # None
          /\ ClearBit0(get_program_counter(registers)[1]) = step.pc[1]) =>
          pc = None
    /\ step.end = "no_pc" => yielded = None

\* A physical step at PcMain whose link register holds PcMain with the Thumb
\* bit: the frame is yielded and the iterator is left without a program
\* counter.
C9_Witness ==
    /\ PhysicalFrame
    /\ before.ret # None
    /\ step.pc = Some(PcMain)
    /\ get_program_counter(registers) = Some(PcMain + 1)
    /\ pc = None

\* C10: repeatedly calling next() eventually returns None, whatever the
\* call-frame information, registers and memory. next() is a function of the
\* iterator state, the debug information and the memory, and only the
\* iterator state changes, so a finite sequence of frames never brings the
\* iterator, with a frame just yielded, back to a state in which next() has
\* been called before.
C10_FrameSequenceIsFinite ==
    yielded # None => IteratorState \notin visited

\* The latest call of next() completed a physical step.
PhysicalStepDone ==
    step.end \in {"frame", "frame_error"} /\ ~step.in_inlined_function

\* C11: every failure inside an unwinding step (CFI lookup failure, missing
\* CFA base register, Expression CFA rule, a register rule without an arm,
\* a failed memory read during rollback, an error while building the frame)
\* makes next() return None: the call returns, and it yields no frame.
C11_FailureIsEndOfStream ==
    step.end \in {"no_unwind_info", "no_cfa", "panic", "read_failed", "frame_error"} =>
        /\ yielded = None
        /\ Running

\* The call site of the inlined function as a source location.
CallSiteLocation == [line |-> Some(17), column |-> Some(9), file |-> Some("a.rs")]

\* C12 as stated: with the program counter inside a function inlined into
\* another, the virtual frame of the inlined function carries the call site
\* as source location, and the physical frame of the enclosing function
\* that follows carries the line-program location of the program counter.
C12_VirtualFrameAtCallSite ==
    /\ (yielded # None /\ step.in_inlined_function) =>
          /\ yielded[1].function_name = <<"inlined", step.pc[1]>>
          /\ yielded[1].source_location = Some(CallSiteLocation)
    /\ (yielded # None /\ before.in_inlined_function) =>
          /\ yielded[1].function_name = <<"subprogram", step.pc[1]>>
          /\ yielded[1].source_location = get_source_location(step.pc[1])

\* C12: with the program counter inside a function inlined into another,
\* the virtual frame of the inlined function is yielded first, with the
\* line-program location of the program counter, and the iterator stays at
\* the program counter; the frame yielded next is the physical frame of the
\* enclosing function, at the same program counter, with the call site of
\* the inlined call as its source location.
C12_CallSiteOnCallerFrame ==
    /\ (yielded # None /\ step.in_inlined_function) =>
          /\ yielded[1].function_name = <<"inlined", step.pc[1]>>
          /\ yielded[1].source_location = get_source_location(step.pc[1])
          /\ pc = step.pc
    /\ (yielded # None /\ before.in_inlined_function) =>
          /\ ~step.in_inlined_function
          /\ before.ret # None /\ yielded[1].pc = before.ret[1].pc
          /\ yielded[1].function_name = <<"subprogram", step.pc[1]>>
          /\ yielded[1].source_location = Some(CallSiteLocation)

\* The virtual frame of the function inlined at PcFoo has been yielded, and
\* after it the physical frame of the function around it.
C12_Witness ==
    /\ yielded # None /\ before.ret # None
    /\ before.in_inlined_function
    /\ before.ret[1].function_name = <<"inlined", PcFoo>>
    /\ yielded[1].function_name = <<"subprogram", PcFoo>>

\* C13: within one unwind no two yielded frames have the same id; in
\* particular the frames yielded by two consecutive calls of next() differ
\* in id, a virtual frame and the physical frame of its caller included.
C13_FrameIdsDiffer ==
    (yielded # None /\ before.ret # None) => yielded[1].id # before.ret[1].id

\* The program counter a physical step leaves, given the value of the slot
\* it is taken from.
NextPcFrom(slot) ==
    IF slot = None \/ ClearBit0(slot[1]) = step.pc[1] THEN None
    ELSE Some(ClearBit0(slot[1]))

IsSourceQuery == query.op = "get_source_location"

\* The sequences of the line programs of all units.
AllSequences ==
    UNION {{units[i].line_program[1].sequences[j] :
               j \in 1 .. Len(units[i].line_program[1].sequences)} :
           i \in {k \in 1 .. Len(units) : units[k].line_program # None}}

\* The sequences whose [start, end) range holds the address.
Covering(address) ==
    {seq \in AllSequences : SeqStart(seq) <= address /\ address < SeqEnd(seq)}

\* The row at the address, or else the last row below it.
RowFor(seq, address) ==
    seq[CHOOSE i \in 1 .. Len(seq) :
          /\ seq[i].address <= address
          /\ \A j \in 1 .. Len(seq) :
                seq[j].address <= address => seq[j].address <= seq[i].address]

IsBreakpointQuery == query.op = "get_breakpoint_location"

\* The candidate rows of the latest breakpoint query, in the order found.
Found == find_locations(units, 1, query.arg.path, query.arg.line)

Candidates == {Found[i] : i \in 1 .. Len(Found)}

\* The candidate that sorts first: least column, then least address.
FirstSorted(S) == CHOOSE x \in S : \A y \in S : x = y \/ LocationBefore(x, y)

\* The candidates whose column is not right of the requested column.
NotRightOf(column) == {x \in Candidates : x.column <= column}

\* Of those, the ones with the greatest column.
GreatestColumn(column) ==
    {x \in NotRightOf(column) : \A y \in NotRightOf(column) : y.column <= x.column}

\* C19 as stated: get_breakpoint_location returns None if and only if no
\* row has the path and the line; with a column it returns the address of
\* a candidate with the greatest column not right of the requested one,
\* for any number of candidates; without a column it returns the address of
\* the first candidate in the order the rows were found.
C19_FirstFoundWithoutColumn ==
    IsBreakpointQuery =>
        /\ query.ret.kind = "Ok"
        /\ query.ret.val = None <=> Candidates = {}
        /\ (Candidates # {} /\ query.arg.column # None) =>
              \E x \in GreatestColumn(query.arg.column[1]) : query.ret.val = Some(x.address)
        /\ (Candidates # {} /\ query.arg.column = None) =>
              query.ret.val = Some(Found[1].address)

\* C19: get_breakpoint_location returns None if and only if no row has the
\* path and the line.  Otherwise, with a column that some candidate is not
\* right of, it returns the lowest address among the candidates with the
\* greatest such column; without a column, or with every candidate right
\* of the requested column, it returns the address of the candidate with
\* the least column and, among those, the lowest address.
C19_BestColumnOrLeast ==
    IsBreakpointQuery =>
        /\ query.ret.kind = "Ok"
        /\ query.ret.val = None <=> Candidates = {}
        /\ (Candidates # {} /\ query.arg.column # None
               /\ NotRightOf(query.arg.column[1]) # {}) =>
              query.ret.val = Some(FirstSorted(GreatestColumn(query.arg.column[1])).address)
        /\ (Candidates # {} /\ (query.arg.column = None
                                   \/ NotRightOf(query.arg.column[1]) = {})) =>
              query.ret.val = Some(FirstSorted(Candidates).address)

\* Candidates were found at the first and at the third row, the third with
\* the lesser column, and the query without a column got the third.
C19_Witness ==
    /\ IsBreakpointQuery
    /\ query.arg.column = None
    /\ Len(Found) >= 2
    /\ Found[1].address = RowA
    /\ query.ret.val = Some(RowC)

\* ------------------------------------------------------------------------
\* Variables: properties
\* ------------------------------------------------------------------------

IsVariablesQuery == query.op = "get_function_variables"

IsStaticsQuery == query.op = "get_stack_statics"

\* The variable entries of the function whose variables are resolved.
LocalVariableDies == units[1].children[1].children

\* The type entry a variable entry refers to.
TypeOf(die) == die.type[1].value

\* The failures that concern one variable: a location or a type reference
\* in a form the resolver does not support, a pointer or an enumeration at
\* an address the target does not let read, an array with an element whose
\* address leaves 64 bits.
PerVariableFailure(die) ==
    \/ die.location[1].form \notin {"Exprloc", "Udata"}
    \/ die.type[1].form # "UnitRef"
    \/ /\ TypeOf(die).tag \in {"pointer_type", "enumeration_type"}
       /\ die.location[1].value \notin DOMAIN memory
    \/ /\ TypeOf(die).tag = "pointer_type"
       /\ TypeOf(die).type[1].form # "UnitRef"
    \/ /\ TypeOf(die).tag = "array_type"
       /\ \E i \in 0 .. TypeOf(die).upper_bound - 1 :
             die.location[1].value + i * TypeOf(TypeOf(die)).byte_size >= U64

\* C14: a failure that concerns one variable never aborts the construction
\* of the variable tree: the variables of the function are returned, one
\* for every variable entry and under its name, and a variable that failed
\* carries the error as its value string.
C14_FailureIsRecordedInline ==
    IsVariablesQuery =>
        /\ query.ret.kind = "Ok"
        /\ Len(query.ret.val) = Len(LocalVariableDies)
        /\ \A i \in 1 .. Len(LocalVariableDies) :
              /\ query.ret.val[i].name = LocalVariableDies[i].name[1]
              /\ PerVariableFailure(LocalVariableDies[i]) =>
                    \/ query.ret.val[i].value # ""
                    \/ /\ query.ret.val[i].children # None
                       /\ \E j \in 1 .. Len(query.ret.val[i].children[1]) :
                             query.ret.val[i].children[1][j].value # ""

\* The enumerators of an enumeration type whose DW_AT_const_value is the
\* value, in the order of the entries.
EnumeratorsOf(type, value) ==
    {k \in 1 .. Len(type.children) : type.children[k].const_value[1].value = value}

\* The value string of an enumeration of the type for the byte read.
VariantString(type, byte) ==
    type.name[1] \o "::" \o
        (IF EnumeratorsOf(type, byte) = {} THEN "<ERROR: Unresolved enum value>"
         ELSE type.children[CHOOSE k \in EnumeratorsOf(type, byte) :
                               \A l \in EnumeratorsOf(type, byte) : k <= l].name[1])

\* C15: every enumeration variable has the value string TypeName::Variant
\* of the enumerator whose DW_AT_const_value is the byte read at the
\* variable's location, TypeName::<ERROR: Unresolved enum value> if there
\* is none, and in both cases no children.
C15_EnumValueNamesVariant ==
    (IsVariablesQuery /\ query.ret.kind = "Ok") =>
        \A i \in 1 .. Len(LocalVariableDies) :
            TypeOf(LocalVariableDies[i]).tag = "enumeration_type" =>
                /\ query.ret.val[i].value =
                       VariantString(TypeOf(LocalVariableDies[i]),
                                     memory[LocalVariableDies[i].location[1].value] % 256)
                /\ query.ret.val[i].children = None

\* The elements resolved for an array variable.
Elements(variable) == IF variable.children = None THEN <<>> ELSE variable.children[1]

\* An array variable whose every element lies within 64 bits.
ArrayFits(die) ==
    \A i \in 0 .. TypeOf(die).upper_bound - 1 :
        die.location[1].value + i * TypeOf(TypeOf(die)).byte_size < U64

\* C16: the element i of an array at location base is named __i, has kind
\* Indexed and location base + i * element_byte_size, whether the element
\* type is a base type or a structure; an element address that leaves 64
\* bits, in the multiplication or in the addition, is reported as an error.
C16_ElementLocation ==
    IsVariablesQuery =>
        \A i \in 1 .. Len(LocalVariableDies) :
            TypeOf(LocalVariableDies[i]).tag = "array_type" =>
                IF ArrayFits(LocalVariableDies[i])
                THEN query.ret.kind = "Ok" =>
                        /\ Len(Elements(query.ret.val[i])) =
                              TypeOf(LocalVariableDies[i]).upper_bound
                        /\ \A k \in 1 .. Len(Elements(query.ret.val[i])) :
                              /\ Elements(query.ret.val[i])[k].name = "__" \o ToString(k - 1)
                              /\ Elements(query.ret.val[i])[k].kind = "Indexed"
                              /\ Elements(query.ret.val[i])[k].memory_location =
                                    LocalVariableDies[i].location[1].value
                                    + (k - 1) * TypeOf(TypeOf(LocalVariableDies[i])).byte_size
                ELSE query.ret.kind = "Err"

\* Every namespace among the entries and below them has a name.
RECURSIVE AllNamed(_)
AllNamed(children) ==
    \A k \in 1 .. Len(children) :
        children[k].tag = "namespace" =>
            children[k].name # None /\ AllNamed(children[k].children)

\* The static and namespace entries under the path of their enclosing
\* namespaces, each with the ::-joined name the path gives it.
RECURSIVE PathNames(_, _)
PathNames(children, prefix) ==
    UNION {IF children[k].tag \in {"variable", "namespace"}
           THEN {prefix \o children[k].name[1]}
                \cup (IF children[k].tag = "namespace"
                      THEN PathNames(children[k].children,
                                     prefix \o children[k].name[1] \o "::")
                      ELSE {})
           ELSE {} : k \in 1 .. Len(children)}

\* The names of the variables of a tree of variables.
RECURSIVE ResolvedNames(_)
ResolvedNames(variables) ==
    UNION {{variables[k].name}
           \cup (IF variables[k].type_name = "namespace"
                 THEN ResolvedNames(Elements(variables[k])) ELSE {})
           : k \in 1 .. Len(variables)}

\* C17: get_stack_statics names every static and every namespace by the
\* ::-joined path of its enclosing namespaces followed by its own name, at
\* every depth: COUNTER in m is m::COUNTER, c in b in a is a::b::c.
C17_StaticsNamedByPath ==
    (IsStaticsQuery /\ query.ret.kind = "Ok" /\ AllNamed(units[1].children)) =>
        ResolvedNames(query.ret.val) = PathNames(units[1].children, "")

\* ------------------------------------------------------------------------
\* Unwinder: register rollback, inlining, end of the stream
\* ------------------------------------------------------------------------

\* The register that holds the CFA.
CfaSlot == IF registers.architecture = "Arm" THEN 13 ELSE 2

\* The value the rule of register i gives it, from the register file
\* before the step, the CFA and the program counter of the step.
RuleValue(rule, i, old, cfa, cur_pc) ==
    IF rule.kind = "Undefined"
    THEN IF i \in {4, 5, 6, 7, 8, 10, 11, 14} THEN old.values[i]
         ELSE IF i = 15 THEN Some(cur_pc)
         ELSE None
    ELSE IF rule.kind = "SameValue" THEN old.values[i]
    ELSE Some(memory[(cfa + rule.o) % U32])

\* The rules of the step just taken, and whether one of them reads an
\* address the target does not let read.
StepRules == frame_section'[step'.pc[1]].rules

StepReadFails ==
    \E i \in DwarfRegs \ {13} :
        /\ StepRules[i].kind = "Offset"
        /\ (step'.cfa[1] + StepRules[i].o) % U32 \notin DOMAIN memory

\* A call of next() that computed a CFA for a program counter outside
\* every inlined function.
PhysicalStep ==
    /\ step' # step
    /\ step'.cfa # None
    /\ ~step'.in_inlined_function

\* C21: in a physical step every register except 13 gets the value of its
\* rule: Undefined keeps 4, 5, 6, 7, 8, 10, 11 and 14, sets 15 to the
\* program counter and removes the others, SameValue keeps the value,
\* Offset(o) reads the word at CFA + o; a failed read makes next() return
\* None.  The register that holds the CFA is written after the loop and
\* is not compared here.
C21_RegisterRules ==
    [][PhysicalStep =>
          IF StepReadFails THEN yielded' = None
          ELSE \A i \in DwarfRegs \ {13, CfaSlot} :
                  registers'.values[i] =
                      RuleValue(StepRules[i], i, registers, step'.cfa[1], step'.pc[1])]_vars

\* A physical step has completed with register 0 read from the stack,
\* register 7 kept by SameValue and register 9 removed.
C21_Witness ==
    /\ step.end = "frame"
    /\ ~step.in_inlined_function
    /\ frame_section[step.pc[1]].rules[0].kind = "Offset"
    /\ frame_section[step.pc[1]].rules[7].kind = "SameValue"
    /\ registers.values[0] = Some(memory[(step.cfa[1] - 8) % U32])
    /\ registers.values[7] # None
    /\ registers.values[9] = None

\* A call of next() ran to its end: it built a frame or failed to build it,
\* and went on.
StepCompleted == step.end \in {"frame", "frame_error"}

\* C22 as claimed: at the end of each step that completes, the CFA slot
\* (13 on ARM, 2 on RISC-V) holds the CFA computed in that step, and
\* register 13 is not written by the rollback loop: where it is not the
\* CFA slot it keeps the value it had at the halt.
C22_CfaSlotAfterEveryStep ==
    StepCompleted =>
        /\ registers.values[CfaSlot] = step.cfa
        /\ registers.architecture = "Riscv" => registers.values[13] = Some(StackPointer)

\* C22: at the end of each step that completes outside an inlined function
\* the CFA slot holds the CFA computed in that step; a step inside an
\* inlined function leaves the CFA slot as it was; register 13 is written
\* only where it is the CFA slot.
C22_CfaSlotAfterPhysicalStep ==
    [][(step' # step /\ step'.end \in {"frame", "frame_error"}) =>
          /\ IF step'.in_inlined_function
             THEN registers'.values[CfaSlot] = registers.values[CfaSlot]
             ELSE registers'.values[CfaSlot] = step'.cfa
          /\ registers.architecture = "Riscv" =>
                registers'.values[13] = registers.values[13]]_vars

\* On RISC-V a physical step has completed with a CFA above the stack
\* pointer of the halt, and register 2 holds it.
C22_Witness ==
    /\ StepCompleted
    /\ ~step.in_inlined_function
    /\ registers.architecture = "Riscv"
    /\ step.cfa = Some(StackPointer + 16)
    /\ registers.values[2] = step.cfa
    /\ registers.values[13] = Some(StackPointer)

\* C23: the variables of every yielded frame are resolved for the frame's
\* own program counter and with the CFA computed for that frame as the
\* frame base.
C23_VariablesOfOwnFrame ==
    (yielded # None /\ yielded[1].variables # None) =>
        /\ yielded[1].variables[1].program_counter = yielded[1].pc
        /\ yielded[1].variables[1].frame_base = step.cfa[1]

\* C24: a step that finds the program counter inside an inlined function
\* sets the state to InlinedCallSite and leaves the register file and the
\* program counter as they were; the step after it consumes the marker,
\* leaves the state NoInlining, detects no inlined function and, running
\* to its end, rolls the registers back and advances the program counter
\* as a physical step does; so no two virtual frames follow each other.
C24_VirtualThenPhysical ==
    [][/\ step'.in_inlined_function =>
             /\ inlining_state.kind = "NoInlining"
             /\ inlining_state'.kind = "InlinedCallSite"
             /\ registers' = registers
             /\ pc' = pc
       /\ inlining_state.kind = "InlinedCallSite" =>
             /\ inlining_state' = NoInlining
             /\ ~step'.in_inlined_function
             /\ step'.pc = pc
             /\ step'.end \in {"frame", "frame_error"} =>
                   /\ registers'.values[CfaSlot] = step'.cfa
                   /\ (pc = NextPcFrom(get_program_counter(registers)))'
       /\ (yielded # None /\ yielded' # None /\ step.in_inlined_function) =>
             ~step'.in_inlined_function]_vars

\* After the virtual frame of the function inlined at PcFoo, the step that
\* consumed the marker has yielded a physical frame and moved on to PcMain.
C24_Witness ==
    /\ before.in_inlined_function
    /\ before.ret # None
    /\ PhysicalFrame
    /\ inlining_state = NoInlining
    /\ step.pc = Some(PcFoo)
    /\ pc = Some(PcMain)
    /\ registers # yielded[1].registers

\* C29: once a call of next() has returned None, whatever ended it, the
\* call after it returns None as well.
C29_NoneIsFinal ==
    (before.end # "new" /\ before.ret = None) => yielded = None

\* ------------------------------------------------------------------------
\* Variables: lexical blocks, variant parts, linked data
\* ------------------------------------------------------------------------

\* The entries of the function whose variables the query resolves.
FunctionEntries == units[1].children[1].children

\* The scope of a lexical block as the DWARF attributes give it.
ScopeByPc(block) ==
    IF block.low_pc = None \/ block.high_pc = None \/ block.low_pc[1].form # "Addr"
    THEN {}
    ELSE IF block.high_pc[1].form = "Udata"
    THEN {a \in ProgramCounters :
             /\ block.low_pc[1].value <= a
             /\ a < block.low_pc[1].value + block.high_pc[1].value}
    ELSE IF block.high_pc[1].form = "Addr"
    THEN {a \in ProgramCounters :
             block.low_pc[1].value <= a /\ a < block.high_pc[1].value}
    ELSE {}

ScopeByRanges(block) ==
    IF block.ranges = None \/ block.ranges[1].form # "RangeListsRef" THEN {}
    ELSE {a \in ProgramCounters :
             \E k \in DOMAIN block.ranges[1].value :
                 block.ranges[1].value[k].begin <= a /\ a < block.ranges[1].value[k].end}

Scope(block) == ScopeByPc(block) \cup ScopeByRanges(block)

\* The names of the variables visible at an address: those outside every
\* block and those of the blocks whose scope holds the address, in the
\* order of the entries.
RECURSIVE VisibleNames(_, _, _)
VisibleNames(entries, k, address) ==
    IF k > Len(entries) THEN <<>>
    ELSE (IF entries[k].tag = "variable" THEN <<entries[k].name[1]>>
          ELSE IF entries[k].tag = "lexical_block" /\ address \in Scope(entries[k])
          THEN VisibleNames(entries[k].children, 1, address)
          ELSE <<>>)
         \o VisibleNames(entries, k + 1, address)

\* The scope attributes of a block and of the blocks in it have the forms
\* the resolver reads.
RECURSIVE ScopesReadable(_, _)
ScopesReadable(entries, k) ==
    \/ k > Len(entries)
    \/ /\ entries[k].tag = "lexical_block" =>
             /\ entries[k].low_pc # None => entries[k].low_pc[1].form = "Addr"
             /\ ScopesReadable(entries[k].children, 1)
       /\ ScopesReadable(entries, k + 1)

OnlyBlocks == \A k \in DOMAIN FunctionEntries : FunctionEntries[k].tag = "lexical_block"

\* C27: the variables of a lexical block are resolved if and only if the
\* program counter is in [low_pc, low_pc + high_pc) for a high_pc that is a
\* length, in [low_pc, high_pc) for one that is an address, or in a range
\* of DW_AT_ranges; they are then children of the variable the block's
\* parent resolves into, with no node for the block.
C27_BlockChildrenIffInScope ==
    IsVariablesQuery =>
       /\ (OnlyBlocks /\ ScopesReadable(FunctionEntries, 1)) => query.ret.kind = "Ok"
       /\ query.ret.kind = "Ok" =>
             [k \in DOMAIN query.ret.val |-> query.ret.val[k].name]
                 = VisibleNames(FunctionEntries, 1, query.arg.program_counter)

\* At PcFoo + 4 the variables f and g of a block and of the block inside it
\* are both children of the root, and so is c of the block after them.
C27_Witness ==
    /\ IsVariablesQuery
    /\ query.arg.program_counter = PcFoo + 4
    /\ query.ret.kind = "Ok"
    /\ [k \in DOMAIN query.ret.val |-> query.ret.val[k].name] = <<"f", "g", "c">>

\* The next pointer of the node n points to leads back to that node.
CyclicList == 68 \in DOMAIN memory /\ memory[68] = 64

\* C28: resolving the variables of a function whose variables point into a
\* cyclic linked structure ends and returns a variable tree.
C28_CyclicDataTerminates ==
    (/\ IsVariablesQuery
     /\ \A k \in DOMAIN FunctionEntries : FunctionEntries[k] \in ListSample
     /\ CyclicList)
        => query.ret.kind = "Ok"

\* The first entry of the function is a tagged union whose discriminant
\* the resolver can name: DW_AT_discr is absent or a reference within the
\* unit, and the query returned its variables.
UnionResolved ==
    /\ IsVariablesQuery
    /\ query.ret.kind = "Ok"
    /\ FunctionEntries[1] \in UnionSample
    /\ TypeOf(FunctionEntries[1]).children[1].discr # None =>
          TypeOf(FunctionEntries[1]).children[1].discr[1].form = "UnitRef"

\* The variant part of that union, its variants, and the discriminant: the
\* byte at 40, or 0 without DW_AT_discr.
TheVariantPart == TypeOf(FunctionEntries[1]).children[1]

TheVariants ==
    SelectSeq(TheVariantPart.children, LAMBDA entry : entry.tag = "variant")

DiscriminantReadable == TheVariantPart.discr # None => 40 \in DOMAIN memory

TheDiscriminant == IF TheVariantPart.discr = None THEN 0 ELSE memory[40]

\* The fields of the variants the resolver selected, in their order: the
\* children of the resolved union after its discriminant.
SelectedFields ==
    LET resolved == query.ret.val[1].children[1]
    IN  [k \in 1 .. Len(resolved) - 1 |-> resolved[k + 1].name]

FieldsOf(variants) == [k \in DOMAIN variants |-> variants[k].children[1].name[1]]

\* The value of DW_AT_discr_value of a variant, 0 if it has none.
DiscrValue(variant) ==
    IF variant.discr_value = None THEN 0 ELSE variant.discr_value[1].value

DiscrValuesReadable ==
    \A k \in DOMAIN TheVariants :
        TheVariants[k].discr_value # None => TheVariants[k].discr_value[1].form # "Malformed"

\* C26: the role of the parent of a variant part is VariantPart of the
\* value of the discriminant DW_AT_discr names, VariantPart(0) without one;
\* a variant has the role Variant(v) for its DW_AT_discr_value v, Variant(0)
\* without one; the children of a variant are added to the parent if and
\* only if the roles agree.
C26_VariantChildrenIffRolesAgree ==
    (UnionResolved /\ DiscriminantReadable /\ DiscrValuesReadable) =>
        SelectedFields =
            FieldsOf(SelectSeq(TheVariants,
                               LAMBDA variant : DiscrValue(variant) = TheDiscriminant))

\* A variant part with a default variant and explicit ones.
HasDefault == \E k \in DOMAIN TheVariants : TheVariants[k].discr_value = None

Explicit(d) ==
    SelectSeq(TheVariants,
              LAMBDA variant : /\ variant.discr_value # None
                               /\ variant.discr_value[1].form # "Malformed"
                               /\ variant.discr_value[1].value = d)

\* C30: in a variant part with a default variant, every discriminant
\* selects exactly one variant, the one whose explicit value it equals or
\* else the default one; a discriminant that cannot be read, and a value
\* that cannot be decoded, select nothing.
C30_ExactlyOneVariant ==
    /\ (UnionResolved /\ DiscriminantReadable /\ HasDefault) =>
          SelectedFields =
              FieldsOf(IF Explicit(TheDiscriminant) # <<>> THEN Explicit(TheDiscriminant)
                       ELSE SelectSeq(TheVariants,
                                      LAMBDA variant : variant.discr_value = None))
    /\ (UnionResolved /\ ~DiscriminantReadable) => SelectedFields = <<>>

\* ------------------------------------------------------------------------
\* Functions: the inlined function of an address
\* ------------------------------------------------------------------------

IsInlineDetection == query.op = "inline_detection"

\* The inlined subroutines of the unit whose ranges cover the address of
\* the query, as positions in the order of next_dfs, and the deepest one.
UnitEntries == next_dfs(units[1].children, 1, 0)

CoveringInlined ==
    {j \in DOMAIN UnitEntries :
        /\ UnitEntries[j].entry.tag = "inlined_subroutine"
        /\ covers(UnitEntries[j].entry, query.arg.address)}

Deepest ==
    UnitEntries[CHOOSE j \in CoveringInlined :
                    \A k \in CoveringInlined : UnitEntries[k].depth <= UnitEntries[j].depth].entry

OriginsReadable ==
    \A j \in CoveringInlined :
        /\ UnitEntries[j].entry.abstract_origin # None
        /\ UnitEntries[j].entry.abstract_origin[1].form = "UnitRef"

\* C25: where several nested inlined subroutines cover the address, the
\* inline detection selects the deepest of them: the function is inlined,
\* its name is that of the deepest one and the call site is the one of the
\* deepest one.
C25_DeepestInlinedSelected ==
    (IsInlineDetection /\ CoveringInlined # {} /\ OriginsReadable) =>
        /\ query.ret.kind = "Ok"
        /\ query.ret.val.is_inline
        /\ query.ret.val.function_name = Deepest.abstract_origin[1].value.name
        /\ query.ret.val.call_line = Deepest.call_line

====
